---------------------------- MODULE Spec2Model ----------------------------
(***************************************************************************)
(* A model of burh's note engine (notes/note.go): the identifier and file  *)
(* name scheme, the plain and outline codecs, and the catalog operations   *)
(* of notes.Manager over a small file system.                              *)
(*                                                                         *)
(* Text is modelled as TLA+ strings (sequences of characters) and the Go   *)
(* strings functions the code calls are defined below on them, byte for    *)
(* byte for ASCII text.  Instants are seconds since 1970-01-01 00:00:00 on *)
(* the wall clock the process formats and parses with.                     *)
(***************************************************************************)
EXTENDS Integers, Sequences, FiniteSets, TLC

VARIABLES
  idTitle,   \* identifier scheme: the title given to CreateNote
  idNow,     \* identifier scheme: the instant time.Now() returns
  idOut,     \* identifier scheme: the id computed, "" before the call
  cdStage,   \* codec: "note" (to serialize), "text" (to parse), "parsed" or "rewritten"
  cdFormat,  \* codec: the note's format, which is the file's extension
  cdNote,    \* codec: the note serialized, NoNote for a hand-written file
  cdText,    \* codec: the file's text
  cdOut,     \* codec: what the parser returned, NoOut before it ran
  now,       \* manager: the wall clock, what time.Now() returns
  dirs,      \* manager: the configured directories in order, each with its files
  result,    \* manager: what the last call of a Manager method returned
  configFile,\* configuration: the notes_dirs list saved in ~/.burhrc.yaml
  madeDirs,  \* configuration: the directories the commands have created
  cfgOut,    \* configuration: what the last add-dir or remove-dir command reported
  ldName,    \* loading: the name of the file loaded
  ldBodies,  \* loading: the two bodies the file is loaded with
  ldOut,     \* loading: the two notes loaded, <<>> before the calls
  model,     \* interactive UI: the Model, a record of its fields
  catalog,   \* interactive UI: the notes on disk, as ListNotes returns them
  inFlight   \* interactive UI: the loadNotes commands running and their messages

idVars == <<idTitle, idNow, idOut>>
cdVars == <<cdStage, cdFormat, cdNote, cdText, cdOut>>
mgrVars == <<now, dirs, result>>
cfgVars == <<configFile, madeDirs, cfgOut>>
ldVars == <<ldName, ldBodies, ldOut>>
tuiVars == <<model, catalog, inFlight>>
vars == <<idVars, cdVars, mgrVars, cfgVars, ldVars, tuiVars>>

(***************************************************************************)
(* Bounds of the model.                                                    *)
(***************************************************************************)
\* Length up to which every title over TitleAlphabet is enumerated.
MaxTitleChars == 2
\* Seconds the clock may advance from Clock0.
MaxTicks == 1
\* Long titles run up to MaxTitleLen + MaxOver characters.
MaxOver == 2
\* Lines of a hand-written file handed to the parsers.
MaxLines == 3
\* Files the primary directory may hold.
MaxFiles == 2

(***************************************************************************)
(* Go's strings package, as used by notes/note.go.                         *)
(***************************************************************************)
NL == "\n"

\* The printable ASCII characters in code order: 32 (space) to 95 (_) and
\* 97 (a) to 126 (~); code 96, the grave accent, is not used by the model.
AsciiLow ==
  " !\"#$%&'()*+,-./0123456789:;<=>?@ABCDEFGHIJKLMNOPQRSTUVWXYZ[\\]^_"

AsciiHigh == "abcdefghijklmnopqrstuvwxyz{|}~"

UpperAZ == "ABCDEFGHIJKLMNOPQRSTUVWXYZ"
LowerAZ == "abcdefghijklmnopqrstuvwxyz"
Digits == "0123456789"

Char(s, i) == SubSeq(s, i, i)

Range(f) == {f[i] : i \in DOMAIN f}

Min(a, b) == IF a <= b THEN a ELSE b

\* strings.Index: the 0-based offset of the first occurrence of sub in s, or -1.
Index(s, sub) ==
  LET hits == {i \in 0..(Len(s) - Len(sub)) : SubSeq(s, i + 1, i + Len(sub)) = sub}
  IN  IF hits = {} THEN -1 ELSE CHOOSE i \in hits : \A j \in hits : i <= j

\* strings.LastIndex: the 0-based offset of the last occurrence of sub in s, or -1.
LastIndex(s, sub) ==
  LET hits == {i \in 0..(Len(s) - Len(sub)) : SubSeq(s, i + 1, i + Len(sub)) = sub}
  IN  IF hits = {} THEN -1 ELSE CHOOSE i \in hits : \A j \in hits : i >= j

Contains(s, sub) == Index(s, sub) # -1

HasPrefix(s, p) == Len(s) >= Len(p) /\ SubSeq(s, 1, Len(p)) = p

HasSuffix(s, p) == Len(s) >= Len(p) /\ SubSeq(s, Len(s) - Len(p) + 1, Len(s)) = p

TrimPrefix(s, p) == IF HasPrefix(s, p) THEN SubSeq(s, Len(p) + 1, Len(s)) ELSE s

TrimSuffix(s, p) == IF HasSuffix(s, p) THEN SubSeq(s, 1, Len(s) - Len(p)) ELSE s

\* The characters of the model's texts.
Chars ==
  {Char(AsciiLow, i) : i \in 1..Len(AsciiLow)} \cup {Char(AsciiHigh, i) : i \in 1..Len(AsciiHigh)}
    \cup {"\t", NL, "\r", "\f"}

\* The byte code of each character (tab, line feed, form feed, carriage
\* return, 32..126).
OrdOf ==
  [c \in Chars |->
     IF c = "\t" THEN 9
     ELSE IF c = NL THEN 10
     ELSE IF c = "\f" THEN 12
     ELSE IF c = "\r" THEN 13
     ELSE IF Contains(AsciiLow, c) THEN 32 + Index(AsciiLow, c)
     ELSE 97 + Index(AsciiHigh, c)]

Ord(c) == OrdOf[c]

\* Go compares strings byte-wise; os.ReadDir sorts directory entries this way.
StrLess(a, b) ==
  LET diffs == {i \in 1..Min(Len(a), Len(b)) : Char(a, i) # Char(b, i)}
      d == CHOOSE i \in diffs : \A j \in diffs : i <= j
  IN  IF diffs = {} THEN Len(a) < Len(b) ELSE Ord(Char(a, d)) < Ord(Char(b, d))

\* unicode.ToLower / unicode.ToUpper on one ASCII character.
LowerOf ==
  [c \in Chars |-> IF Contains(UpperAZ, c) THEN Char(LowerAZ, Index(UpperAZ, c) + 1) ELSE c]

UpperOf ==
  [c \in Chars |-> IF Contains(LowerAZ, c) THEN Char(UpperAZ, Index(LowerAZ, c) + 1) ELSE c]

LowerChar(c) == LowerOf[c]

UpperChar(c) == UpperOf[c]

\* The concatenation piece[lo] \o ... \o piece[hi] of a sequence of strings.
RECURSIVE Concat(_, _, _)
Concat(piece, lo, hi) ==
  IF lo > hi THEN ""
  ELSE IF lo = hi THEN piece[lo]
  ELSE Concat(piece, lo, (lo + hi) \div 2) \o Concat(piece, ((lo + hi) \div 2) + 1, hi)

\* strings.ToLower / strings.ToUpper
ToLower(s) == Concat([i \in 1..Len(s) |-> LowerChar(Char(s, i))], 1, Len(s))

ToUpper(s) == Concat([i \in 1..Len(s) |-> UpperChar(Char(s, i))], 1, Len(s))

\* unicode.IsSpace on ASCII.
IsSpace(c) == c \in {" ", "\t", NL, "\r", "\f"}

RECURSIVE TrimLeft(_)
TrimLeft(s) == IF s # "" /\ IsSpace(Char(s, 1)) THEN TrimLeft(Tail(s)) ELSE s

RECURSIVE TrimRight(_)
TrimRight(s) ==
  IF s # "" /\ IsSpace(Char(s, Len(s))) THEN TrimRight(SubSeq(s, 1, Len(s) - 1)) ELSE s

\* strings.TrimSpace
TrimSpace(s) == TrimRight(TrimLeft(s))

\* strings.ReplaceAll for the patterns the code passes: one character, or the
\* two characters backslash n.  Two occurrences of such a pattern never overlap,
\* so every occurrence is replaced.
ReplaceAll(s, old, new) ==
  LET at(i) == i >= 1 /\ i + Len(old) - 1 <= Len(s) /\ SubSeq(s, i, i + Len(old) - 1) = old
      piece(i) == IF at(i) THEN new
                  ELSE IF \E j \in (i - Len(old) + 1)..(i - 1) : at(j) THEN ""
                  ELSE Char(s, i)
  IN  Concat([i \in 1..Len(s) |-> piece(i)], 1, Len(s))

\* strings.Split for the separators the code passes, each one character:
\* the pieces between the occurrences of sep; Split("", sep) is <<"">>.
Split(s, sep) ==
  LET cuts == {i \in 1..(Len(s) - Len(sep) + 1) : SubSeq(s, i, i + Len(sep) - 1) = sep}
      cut(k) == IF k = 0 THEN 1 - Len(sep)
                ELSE IF k > Cardinality(cuts) THEN Len(s) + 1
                ELSE CHOOSE i \in cuts : Cardinality({j \in cuts : j < i}) = k - 1
  IN  [k \in 1..(Cardinality(cuts) + 1) |-> SubSeq(s, cut(k - 1) + Len(sep), cut(k) - 1)]

\* strings.Join
RECURSIVE Join(_, _)
Join(elems, sep) ==
  IF elems = <<>> THEN ""
  ELSE IF Len(elems) = 1 THEN elems[1]
  ELSE elems[1] \o sep \o Join(Tail(elems), sep)

\* strings.Fields: the maximal runs of non-space characters, in order.
RECURSIVE Fields(_)
Fields(s) ==
  LET t == TrimLeft(s)
      ends == {i \in 1..Len(t) : IsSpace(Char(t, i))}
      n == IF ends = {} THEN Len(t) ELSE (CHOOSE i \in ends : \A j \in ends : i <= j) - 1
  IN  IF t = "" THEN <<>>
      ELSE <<SubSeq(t, 1, n)>> \o Fields(SubSeq(t, n + 1, Len(t)))

(***************************************************************************)
(* Go's time package, as used by notes/note.go: time.Now, Time.Format and  *)
(* time.Parse with the layouts the code names, Time.Add, After and Before. *)
(***************************************************************************)
SecondsPerDay == 24 * 3600

\* Days from 1970-01-01 to the civil date y-m-d (proleptic Gregorian).
DaysFromCivil(y, m, d) ==
  LET yy == IF m <= 2 THEN y - 1 ELSE y
      era == yy \div 400
      yoe == yy - era * 400
      mp == IF m > 2 THEN m - 3 ELSE m + 9
      doy == (153 * mp + 2) \div 5 + d - 1
      doe == yoe * 365 + yoe \div 4 - yoe \div 100 + doy
  IN  era * 146097 + doe - 719468

\* The civil date of the day z days after 1970-01-01.
CivilFromDays(z) ==
  LET zz == z + 719468
      era == zz \div 146097
      doe == zz - era * 146097
      yoe == (doe - doe \div 1460 + doe \div 36524 - doe \div 146096) \div 365
      doy == doe - (365 * yoe + yoe \div 4 - yoe \div 100)
      mp == (5 * doy + 2) \div 153
      d == doy - (153 * mp + 2) \div 5 + 1
      m == IF mp < 10 THEN mp + 3 ELSE mp - 9
  IN  [year |-> yoe + era * 400 + (IF m <= 2 THEN 1 ELSE 0), month |-> m, day |-> d]

\* time.Date(y, m, d, hh, mm, ss, 0, loc)
Date(y, m, d, hh, mm, ss) ==
  DaysFromCivil(y, m, d) * SecondsPerDay + hh * 3600 + mm * 60 + ss

Year(t) == CivilFromDays(t \div SecondsPerDay).year
Month(t) == CivilFromDays(t \div SecondsPerDay).month
Day(t) == CivilFromDays(t \div SecondsPerDay).day
Hour(t) == (t % SecondsPerDay) \div 3600
Minute(t) == (t % 3600) \div 60
Second(t) == t % 60

Pad2(n) == Char(Digits, ((n \div 10) % 10) + 1) \o Char(Digits, (n % 10) + 1)
Pad4(n) == Pad2(n \div 100) \o Pad2(n % 100)

\* Time.Format("20060102_150405")
FormatStamp(t) ==
  Pad4(Year(t)) \o Pad2(Month(t)) \o Pad2(Day(t)) \o "_"
    \o Pad2(Hour(t)) \o Pad2(Minute(t)) \o Pad2(Second(t))

\* Time.Format("2006-01-02")
FormatDate(t) == Pad4(Year(t)) \o "-" \o Pad2(Month(t)) \o "-" \o Pad2(Day(t))

\* Time.Format("2006-01-02 15:04:05")
FormatDateTime(t) ==
  FormatDate(t) \o " " \o Pad2(Hour(t)) \o ":" \o Pad2(Minute(t)) \o ":" \o Pad2(Second(t))

DigitChars == {Char(Digits, i) : i \in 1..Len(Digits)}

IsDigits(s) == \A i \in 1..Len(s) : Char(s, i) \in DigitChars

RECURSIVE Atoi(_)
Atoi(s) == IF s = "" THEN 0 ELSE Atoi(SubSeq(s, 1, Len(s) - 1)) * 10 + Index(Digits, Char(s, Len(s)))

DaysIn(y, m) ==
  IF m = 2 THEN (IF (y % 4) = 0 /\ ((y % 100) # 0 \/ (y % 400) = 0) THEN 29 ELSE 28)
  ELSE IF m \in {4, 6, 9, 11} THEN 30 ELSE 31

\* What time.Parse accepts for numeric fields: a real date and time of day.
ValidCivil(y, m, d, hh, mm, ss) ==
  /\ m \in 1..12 /\ d >= 1 /\ d <= DaysIn(y, m)
  /\ hh <= 23 /\ mm <= 59 /\ ss <= 59

\* Whether time.Parse("20060102_150405", s) returns no error.
StampOk(s) ==
  /\ Len(s) = 15
  /\ IsDigits(SubSeq(s, 1, 8)) /\ Char(s, 9) = "_" /\ IsDigits(SubSeq(s, 10, 15))
  /\ ValidCivil(Atoi(SubSeq(s, 1, 4)), Atoi(SubSeq(s, 5, 6)), Atoi(SubSeq(s, 7, 8)),
                Atoi(SubSeq(s, 10, 11)), Atoi(SubSeq(s, 12, 13)), Atoi(SubSeq(s, 14, 15)))

\* time.Parse("20060102_150405", s): [ok |-> FALSE] is the error return.
ParseStamp(s) ==
  IF StampOk(s)
  THEN [ok |-> TRUE,
        t |-> Date(Atoi(SubSeq(s, 1, 4)), Atoi(SubSeq(s, 5, 6)), Atoi(SubSeq(s, 7, 8)),
                   Atoi(SubSeq(s, 10, 11)), Atoi(SubSeq(s, 12, 13)), Atoi(SubSeq(s, 14, 15)))]
  ELSE [ok |-> FALSE, t |-> 0]

\* The wall clock when the model starts: 2024-12-01 23:59:59.
Clock0 == Date(2024, 12, 1, 23, 59, 59)

Instants == {Clock0 + k : k \in 0..MaxTicks}

(***************************************************************************)
(* Identifier and file name scheme.                                        *)
(***************************************************************************)
MaxTitleLen == 50

\* The characters sanitizeTitle replaces by an underscore, in the code's order.
UnsafeChars == <<" ", "/", "\\", ":", "*", "?", "\"", "<", ">", "|">>

RECURSIVE ReplaceEach(_, _, _)
ReplaceEach(s, olds, new) ==
  IF olds = <<>> THEN s ELSE ReplaceEach(ReplaceAll(s, Head(olds), new), Tail(olds), new)

\* sanitizeTitle without its strings.ToLower step.
sanitizeTitleNoLower(title) ==
  LET replaced == ReplaceEach(title, UnsafeChars, "_")
  IN  IF Len(replaced) > MaxTitleLen THEN SubSeq(replaced, 1, MaxTitleLen) ELSE replaced

\* sanitizeTitle with the colon left out of the replaced characters.
sanitizeTitleKeepColon(title) ==
  LET lowered == ToLower(ReplaceEach(title, SubSeq(UnsafeChars, 1, 3) \o SubSeq(UnsafeChars, 5, 10), "_"))
  IN  IF Len(lowered) > MaxTitleLen THEN SubSeq(lowered, 1, MaxTitleLen) ELSE lowered

\* sanitizeTitle cutting one character short: title[:49].
sanitizeTitleCutShort(title) ==
  LET lowered == ToLower(ReplaceEach(title, UnsafeChars, "_"))
  IN  IF Len(lowered) > MaxTitleLen THEN SubSeq(lowered, 1, MaxTitleLen - 1) ELSE lowered

sanitizeTitle(title) ==
  LET lowered == ToLower(ReplaceEach(title, UnsafeChars, "_"))
  IN  IF Len(lowered) > MaxTitleLen THEN SubSeq(lowered, 1, MaxTitleLen) ELSE lowered

NoteIDTitleFirst(title, clock) == sanitizeTitle(title) \o "_" \o FormatStamp(clock)

\* CreateNote's id: fmt.Sprintf("%s_%s", now.Format("20060102_150405"), sanitizedTitle)
NoteID(title, clock) == FormatStamp(clock) \o "_" \o sanitizeTitle(title)

(***************************************************************************)
(* Note codec: the plain and the outline (Org) dialect.  A note is a       *)
(* record [ID, Title, Content, Created, Modified, Tags, Format, Filename]; *)
(* Tags is a sequence of strings.  Instants are whole seconds; CreatedSub  *)
(* tells that Created has a fraction of a second beyond them.              *)
(***************************************************************************)
\* strings.ReplaceAll(note.Content, "\\n", "\n"): the two characters backslash n
\* become a line feed.
ExpandNewlines(content) == ReplaceAll(content, "\\n", NL)

formatOrgNote(note) ==
  "#+TITLE: " \o note.Title \o NL
    \o "#+DATE: " \o FormatDate(note.Created) \o NL
    \o "#+MODIFIED: " \o FormatDate(note.Modified) \o NL
    \o (IF Len(note.Tags) > 0 THEN "#+TAGS: " \o Join(note.Tags, " ") \o NL ELSE "")
    \o NL
    \o "* CONTENT" \o NL
    \o ExpandNewlines(note.Content)

formatTxtNote(note) ==
  "Title: " \o note.Title \o NL
    \o "Created: " \o FormatDateTime(note.Created) \o NL
    \o "Modified: " \o FormatDateTime(note.Modified) \o NL
    \o (IF Len(note.Tags) > 0 THEN "Tags: " \o Join(note.Tags, ", ") \o NL ELSE "")
    \o NL
    \o ExpandNewlines(note.Content)

\* s[n:] of Go: s without its first n bytes.
From(s, n) == SubSeq(s, n + 1, Len(s))

\* The addTags closure of parseOrgNote: the tags one directive value or one
\* headline block adds to tagSet.
addTags(tagLine) ==
  LET trimmed == TrimSpace(tagLine)
  IN  IF trimmed = "" THEN {}
      ELSE {TrimSpace(t) : t \in Range(Fields(ReplaceAll(trimmed, ":", " ")))} \ {""}

\* The loop of parseOrgNote without its #+FILETAGS: branch.
OrgLineTagsNoFiletags(raw) ==
  LET line == TrimSpace(raw)
      upper == ToUpper(line)
      lastSpace == LastIndex(line, " ")
      tagBlock == TrimSpace(From(line, lastSpace + 1))
  IN  IF HasPrefix(upper, "#+TITLE:") THEN {}
      ELSE IF HasPrefix(upper, "#+TAGS:") THEN addTags(From(line, Len("#+TAGS:")))
      ELSE IF /\ HasPrefix(line, "*")
              /\ lastSpace # -1 /\ lastSpace < Len(line) - 1
              /\ HasPrefix(tagBlock, ":") /\ HasSuffix(tagBlock, ":")
           THEN addTags(tagBlock)
      ELSE {}

\* The tags the loop of parseOrgNote adds for one raw line.
OrgLineTags(raw) ==
  LET line == TrimSpace(raw)
      upper == ToUpper(line)
      lastSpace == LastIndex(line, " ")
      tagBlock == TrimSpace(From(line, lastSpace + 1))
  IN  IF HasPrefix(upper, "#+TITLE:") THEN {}
      ELSE IF HasPrefix(upper, "#+FILETAGS:") THEN addTags(From(line, Len("#+FILETAGS:")))
      ELSE IF HasPrefix(upper, "#+TAGS:") THEN addTags(From(line, Len("#+TAGS:")))
      ELSE IF /\ HasPrefix(line, "*")
              /\ lastSpace # -1 /\ lastSpace < Len(line) - 1
              /\ HasPrefix(tagBlock, ":") /\ HasSuffix(tagBlock, ":")
           THEN addTags(tagBlock)
      ELSE {}

\* The value a raw line assigns to title in parseOrgNote, "" when it assigns none.
OrgLineTitle(raw) ==
  LET line == TrimSpace(raw)
  IN  IF HasPrefix(ToUpper(line), "#+TITLE:") THEN TrimSpace(From(line, Len("#+TITLE:"))) ELSE ""

\* Whether a raw line sets contentStart when it is still -1.
OrgStartsContent(raw) ==
  LET line == TrimSpace(raw) IN line # "" /\ ~HasPrefix(TrimSpace(line), "#+")

\* parseOrgNote scans every line of the file: the loop has no break.  tags is
\* the tag set; the code returns its elements in the order of a map iteration.
parseOrgNote(content) ==
  LET lines == Split(content, NL)
      titled == {i \in 1..Len(lines) : OrgLineTitle(lines[i]) # ""}
      starts == {i \in 1..Len(lines) : OrgStartsContent(lines[i])}
      contentStart == CHOOSE i \in starts : \A j \in starts : i <= j
  IN  [title |-> IF titled = {} THEN ""
                 ELSE OrgLineTitle(lines[CHOOSE i \in titled : \A j \in titled : i >= j]),
       content |-> IF starts = {} THEN ""
                   ELSE TrimSpace(Join(SubSeq(lines, contentStart, Len(lines)), NL)),
       tags |-> UNION {OrgLineTags(lines[i]) : i \in 1..Len(lines)}]

TxtIsTitle(line) == HasPrefix(line, "Title:")
TxtIsTags(line) == ~TxtIsTitle(line) /\ HasPrefix(line, "Tags:")
TxtIsSkipped(line) ==
  TxtIsTitle(line) \/ HasPrefix(line, "Tags:") \/ HasPrefix(line, "Created:")
    \/ HasPrefix(line, "Modified:") \/ line = ""

TxtLineTagsDropEmpty(line) ==
  LET parts == Split(TrimSpace(TrimPrefix(line, "Tags:")), ",")
  IN  SelectSeq([j \in 1..Len(parts) |-> TrimSpace(parts[j])], LAMBDA t : t # "")

\* The tags a Tags: line assigns: split on commas, each piece trimmed.
TxtLineTags(line) ==
  LET parts == Split(TrimSpace(TrimPrefix(line, "Tags:")), ",")
  IN  [j \in 1..Len(parts) |-> TrimSpace(parts[j])]

\* parseTxtNote stops at the first line that is neither a label line nor empty,
\* and takes the content from the first occurrence of that line's text in the
\* whole file (strings.Index(content, line)).
parseTxtNote(content) ==
  LET lines == Split(content, NL)
      starts == {i \in 1..Len(lines) : ~TxtIsSkipped(lines[i])}
      stop == IF starts = {} THEN Len(lines) + 1
              ELSE CHOOSE i \in starts : \A j \in starts : i <= j
      titled == {i \in 1..(stop - 1) : TxtIsTitle(lines[i])}
      tagged == {i \in 1..(stop - 1) : TxtIsTags(lines[i])}
      contentStart == Index(content, lines[stop])
  IN  [title |-> IF titled = {} THEN ""
                 ELSE TrimSpace(TrimPrefix(lines[CHOOSE i \in titled : \A j \in titled : i >= j],
                                           "Title:")),
       content |-> IF starts = {} \/ contentStart = -1 THEN ""
                   ELSE TrimSpace(From(content, contentStart)),
       tags |-> IF tagged = {} THEN <<>>
                ELSE TxtLineTags(lines[CHOOSE i \in tagged : \A j \in tagged : i >= j])]


(***************************************************************************)
(* notes.Manager over a file system.  A directory is a record              *)
(* [path, readable, files]; files maps each file name to [text, readable]. *)
(* An error is its message, "" being nil.                                  *)
(***************************************************************************)
NoNote == <<>>

\* filepath.Ext: the suffix of the name from its last dot, "" without a dot.
Ext(name) == IF LastIndex(name, ".") = -1 THEN "" ELSE From(name, LastIndex(name, "."))

\* os.ReadDir returns the entries sorted by file name.
SortedNames(names) ==
  [i \in 1..Cardinality(names) |->
     CHOOSE n \in names : Cardinality({m \in names : StrLess(m, n)}) = i - 1]

\* saveNoteToFile: the text written for a note of the given format.
FileText(note, format) ==
  IF format = "org" THEN formatOrgNote(note) ELSE formatTxtNote(note)

\* Every order a Go map iteration may return the elements of a set in.
Orderings(set) ==
  {f \in [1..Cardinality(set) -> set] : \A i, j \in DOMAIN f : f[i] = f[j] => i = j}

\* loadNoteFromFile, lines 289-293: the parser is chosen by the extension; the
\* results are the parsed fields under every order of the outline tag set.
ParsedFields(text, ext) ==
  IF ext = ".org"
  THEN LET p == parseOrgNote(text)
       IN  {[title |-> p.title, content |-> p.content, tags |-> g] : g \in Orderings(p.tags)}
  ELSE {parseTxtNote(text)}

\* The stamp of the zero value of time.Time, 0001-01-01 00:00:00 UTC: the one
\* stamp time.Parse turns into a time for which Time.IsZero holds.
ZeroStamp == "00010101_000000"

\* loadNoteFromFile, lines 296-304: whether created is set from the id and is
\* not the zero time afterwards.
StampedId(id) ==
  /\ Len(id) >= 15
  /\ StampOk(SubSeq(id, 1, 15))
  /\ SubSeq(id, 1, 15) # ZeroStamp

CreatedOfIgnoreStamp(id, clock) == clock

\* loadNoteFromFile, lines 295-304: the creation time read from the id, or the
\* current time when created is still the zero time after that.
CreatedOf(id, clock) ==
  IF StampedId(id) THEN ParseStamp(SubSeq(id, 1, 15)).t ELSE clock

\* Whether the creation time is a reading of time.Now(), which lies inside its
\* second, and not a stamp, which lies at the start of its second.
CreatedInsideSecond(id) == ~StampedId(id)

\* loadNoteFromFile: every [err, note] the call may return for one file.
loadNoteFromFile(filename, file, clock) ==
  IF ~file.readable
  THEN {[err |-> "open " \o filename \o ": permission denied", note |-> NoNote]}
  ELSE {[err |-> "",
         note |-> [ID |-> TrimSuffix(filename, Ext(filename)),
                   Title |-> p.title, Content |-> p.content,
                   Created |-> CreatedOf(TrimSuffix(filename, Ext(filename)), clock),
                   CreatedSub |-> CreatedInsideSecond(TrimSuffix(filename, Ext(filename))),
                   Modified |-> clock, Tags |-> p.tags,
                   Format |-> TrimPrefix(Ext(filename), "."), Filename |-> filename]] :
          p \in ParsedFields(file.text, Ext(filename))}

\* CreateNote, lines 63-66: an unknown format becomes txt.
ValidFormat(format) == IF format \notin {"org", "txt", "md"} THEN "txt" ELSE format

\* CreateNote, lines 57-80: the note built before it is saved.
NewNote(title, content, tags, format, clock) ==
  [ID |-> NoteID(title, clock), Title |-> title, Content |-> content,
   Created |-> clock, CreatedSub |-> TRUE, Modified |-> clock, Tags |-> tags,
   Format |-> ValidFormat(format),
   Filename |-> NoteID(title, clock) \o "." \o ValidFormat(format)]

\* os.WriteFile(filepath.Join(m.notesDirs[0], note.Filename), ...) of saveNoteToFile.
WriteNote(ds, note) ==
  LET files == ds[1].files
      written == [n \in DOMAIN files \cup {note.Filename} |->
                    IF n = note.Filename
                    THEN [text |-> FileText(note, note.Format), readable |-> TRUE]
                    ELSE files[n]]
  IN  [ds EXCEPT ![1].files = written]

\* os.Remove(filepath.Join(m.notesDirs[0], note.Filename)) of DeleteNote.
RemoveFile(ds, filename) ==
  [ds EXCEPT ![1].files = [n \in DOMAIN ds[1].files \ {filename} |-> ds[1].files[n]]]

\* GetNotesDir: the path of the primary directory, "" without directories.
GetNotesDir(ds) == IF Len(ds) = 0 THEN "" ELSE ds[1].path

\* GetNote: every [err, note] the call may return.
GetOutcomes(ds, id, clock) ==
  LET names == SortedNames(DOMAIN ds[1].files)
      hits == {i \in DOMAIN names : HasPrefix(names[i], id)}
      first == names[CHOOSE i \in hits : \A j \in hits : i <= j]
  IN  IF ~ds[1].readable
      THEN {[err |-> "failed to read notes directory: open " \o ds[1].path \o ": permission denied",
             note |-> NoNote]}
      ELSE IF hits = {} THEN {[err |-> "note not found: " \o id, note |-> NoNote]}
      ELSE loadNoteFromFile(first, ds[1].files[first], clock)

\* ListNotes, line 152: the test on the file name.
IsNoteFile(name) == HasSuffix(name, ".org") \/ HasSuffix(name, ".txt") \/ HasSuffix(name, ".md")

\* The loop of ListNotes leaving at the first file that cannot be loaded.
RECURSIVE LoadAllStopAtError(_, _, _, _)
LoadAllStopAtError(names, k, files, clock) ==
  IF k > Len(names) THEN {<<>>}
  ELSE IF ~IsNoteFile(names[k]) THEN LoadAllStopAtError(names, k + 1, files, clock)
  ELSE {IF o.err = "" THEN <<o.note>> \o rest ELSE <<>> :
          o \in loadNoteFromFile(names[k], files[names[k]], clock),
          rest \in LoadAllStopAtError(names, k + 1, files, clock)}

\* ListNotes, lines 151-159: the notes of the files names[k..], in order, a file
\* that cannot be loaded being skipped.
RECURSIVE LoadAll(_, _, _, _)
LoadAll(names, k, files, clock) ==
  IF k > Len(names) THEN {<<>>}
  ELSE IF ~IsNoteFile(names[k]) THEN LoadAll(names, k + 1, files, clock)
  ELSE {(IF o.err = "" THEN <<o.note>> ELSE <<>>) \o rest :
          o \in loadNoteFromFile(names[k], files[names[k]], clock),
          rest \in LoadAll(names, k + 1, files, clock)}

\* ListNotes returning, beside the error, the notes of the directories read
\* before the one that failed.
RECURSIVE ListFromKeepEarlier(_, _, _)
ListFromKeepEarlier(ds, k, clock) ==
  IF k > Len(ds) THEN {[err |-> "", notes |-> <<>>]}
  ELSE IF ~ds[k].readable
  THEN {[err |-> "failed to read notes directory " \o ds[k].path \o ": open "
                   \o ds[k].path \o ": permission denied",
         notes |-> <<>>]}
  ELSE {[err |-> rest.err, notes |-> here \o rest.notes] :
          here \in LoadAll(SortedNames(DOMAIN ds[k].files), 1, ds[k].files, clock),
          rest \in ListFromKeepEarlier(ds, k + 1, clock)}

\* ListNotes: every [err, notes] the call may return, directories ds[k..].
RECURSIVE ListFrom(_, _, _)
ListFrom(ds, k, clock) ==
  IF k > Len(ds) THEN {[err |-> "", notes |-> <<>>]}
  ELSE IF ~ds[k].readable
  THEN {[err |-> "failed to read notes directory " \o ds[k].path \o ": open "
                   \o ds[k].path \o ": permission denied",
         notes |-> <<>>]}
  ELSE {IF rest.err # "" THEN rest ELSE [err |-> "", notes |-> here \o rest.notes] :
          here \in LoadAll(SortedNames(DOMAIN ds[k].files), 1, ds[k].files, clock),
          rest \in ListFrom(ds, k + 1, clock)}

ListOutcomes(ds, clock) == ListFrom(ds, 1, clock)

\* containsTag
containsTag(tags, query) == \E i \in DOMAIN tags : Contains(ToLower(tags[i]), query)

\* The subsequence of the notes that satisfy Keep, in order: what a loop of
\* results = append(results, note) under a condition builds.
Filter(notes, Keep(_)) ==
  LET kept == {i \in DOMAIN notes : Keep(notes[i])}
  IN  [k \in 1..Cardinality(kept) |->
         notes[CHOOSE i \in kept : Cardinality({j \in kept : j < i}) = k - 1]]

\* SearchNotes comparing the query as it was typed.
KeywordMatchesKeepCase(notes, query) ==
  LET q == query
      Keep(note) == \/ Contains(ToLower(note.Title), q)
                    \/ Contains(ToLower(note.Content), q)
                    \/ containsTag(note.Tags, q)
  IN  Filter(notes, Keep)

\* SearchNotes, lines 172-181, on the notes ListNotes returned.
KeywordMatches(notes, query) ==
  LET q == ToLower(query)
      Keep(note) == \/ Contains(ToLower(note.Title), q)
                    \/ Contains(ToLower(note.Content), q)
                    \/ containsTag(note.Tags, q)
  IN  Filter(notes, Keep)

\* SearchByTag keeping the notes that have the query itself as a tag.
TagMatchesExact(notes, tag) ==
  LET q == ToLower(TrimSpace(tag))
      Keep(note) == \E i \in DOMAIN note.Tags : ToLower(note.Tags[i]) = q
  IN  Filter(notes, Keep)

\* SearchByTag, lines 193-200.
TagMatches(notes, tag) ==
  LET q == ToLower(TrimSpace(tag))
      Keep(note) == containsTag(note.Tags, q)
  IN  Filter(notes, Keep)


\* The layouts SearchByDate tries, in its order, written with one letter per
\* digit: Y year, M month, D day, h hour, m minute, s second.
DateLayouts ==
  <<"YYYY-MM-DD", "YYYY/MM/DD", "MM/DD/YYYY", "DD/MM/YYYY",
    "YYYY-MM-DD hh:mm:ss", "YYYY/MM/DD hh:mm:ss">>

\* The number written by the digits of value at the places layout marks with
\* letter, 0 when the layout has no such place.
Field(layout, value, letter) ==
  LET at == {i \in 1..Len(layout) : Char(layout, i) = letter}
      lo == CHOOSE i \in at : \A j \in at : i <= j
      hi == CHOOSE i \in at : \A j \in at : i >= j
  IN  IF at = {} THEN 0 ELSE Atoi(SubSeq(value, lo, hi))

\* time.Parse(layout, value) for one of DateLayouts and a value with two-digit
\* fields: [ok |-> FALSE] is the error return.
ParseLayout(layout, value) ==
  LET fits == /\ Len(value) = Len(layout)
              /\ \A i \in 1..Len(layout) :
                   IF Contains("YMDhms", Char(layout, i))
                   THEN Char(value, i) \in DigitChars
                   ELSE Char(value, i) = Char(layout, i)
      F(letter) == Field(layout, value, letter)
  IN  IF fits /\ ValidCivil(F("Y"), F("M"), F("D"), F("h"), F("m"), F("s"))
      THEN [ok |-> TRUE, t |-> Date(F("Y"), F("M"), F("D"), F("h"), F("m"), F("s"))]
      ELSE [ok |-> FALSE, t |-> 0]

\* SearchByDate, lines 229-234: the first layout that parses the query decides.
ParseDateQuery(dateQuery) ==
  LET good == {k \in DOMAIN DateLayouts : ParseLayout(DateLayouts[k], dateQuery).ok}
  IN  IF good = {} THEN [ok |-> FALSE, t |-> 0]
      ELSE ParseLayout(DateLayouts[CHOOSE k \in good : \A j \in good : k <= j], dateQuery)

\* SearchByDate, lines 212-257, on the notes ListNotes returned.
DateMatches(notes, query) ==
  LET dateQuery == ToLower(TrimSpace(query))
      targetDate == ParseDateQuery(dateQuery)
      targetDateStart == Date(Year(targetDate.t), Month(targetDate.t), Day(targetDate.t), 0, 0, 0)
      targetDateEnd == targetDateStart + 24 * 3600
      ByText(note) == Contains(ToLower(FormatDate(note.Created)), dateQuery)
      After(note) == note.Created > targetDateStart
                       \/ (note.Created = targetDateStart /\ note.CreatedSub)
      ByDay(note) == After(note) /\ note.Created < targetDateEnd
  IN  IF ~targetDate.ok THEN Filter(notes, ByText) ELSE Filter(notes, ByDay)

(***************************************************************************)
(* Each specification below moves the variables of one part of the program *)
(* and leaves the others at these values.                                  *)
(***************************************************************************)
IdIdle == idTitle = "" /\ idNow = Clock0 /\ idOut = ""

CdIdle ==
  /\ cdStage = "idle" /\ cdFormat = "txt" /\ cdNote = <<>> /\ cdText = "" /\ cdOut = <<>>

MgrIdle == now = Clock0 /\ dirs = <<>> /\ result = <<>>

CfgIdle == configFile = <<>> /\ madeDirs = {} /\ cfgOut = <<>>

LdIdle == ldName = "" /\ ldBodies = <<>> /\ ldOut = <<>>

TuiIdle == model = <<>> /\ catalog = <<>> /\ inFlight = <<>>

(***************************************************************************)
(* Specification Spec: calls of the Manager's methods on two configured    *)
(* directories while the clock advances.                                   *)
(***************************************************************************)
\* What the primary directory holds before the first call: a file the user
\* keeps beside the notes.
HomeFiles == [n \in {"README"} |-> [text |-> "read me", readable |-> TRUE]]

\* The bytes of a file that is no note, whatever its name says.
GarbageText == "%PDF-1.4" \o NL \o "@@ 0 obj"

\* What the second directory holds: a Markdown note written by this program
\* with that directory as its primary one, a file with a note extension and
\* arbitrary content, and a note file the user may not read.
WorkFiles ==
  LET t == Date(2024, 11, 30, 10, 15, 0)
      report == NewNote("Report", "Quarterly", <<"Work">>, "md", t)
      secret == NewNote("Secret", "pin", <<>>, "org", t + 1)
  IN  [n \in {report.Filename, "garbage.txt", secret.Filename} |->
         IF n = report.Filename THEN [text |-> FileText(report, report.Format), readable |-> TRUE]
         ELSE IF n = secret.Filename THEN [text |-> FileText(secret, secret.Format), readable |-> FALSE]
         ELSE [text |-> GarbageText, readable |-> TRUE]]

\* The configurations the model starts from: which directory can be read.
Worlds ==
  {<<[path |-> "/notes", readable |-> r[1], files |-> HomeFiles],
     [path |-> "/work", readable |-> r[2], files |-> WorkFiles]>> :
     r \in {<<TRUE, TRUE>>, <<TRUE, FALSE>>, <<FALSE, TRUE>>}}

\* The (title, content, tags) a caller passes to CreateNote.
NoteInputs ==
  {[title |-> "A", content |-> "Yx", tags |-> <<"Work">>],
   [title |-> "a!", content |-> "", tags |-> <<"work", "Urgent">>],
   [title |-> "a", content |-> "", tags |-> <<>>]}

\* The (title, content, tags) a caller passes to UpdateNote.
UpdateInputs == {[title |-> "B c", content |-> "x", tags |-> <<>>]}

FormatInputs == {"org", "txt", "rtf"}

\* The ids a caller passes to GetNote, UpdateNote and DeleteNote: the id of
\* every note of the primary directory, the id the first create of title "A"
\* returned, whether that note still exists or not, and the id of the note
\* ListNotes returns from the second directory.
IdInputs ==
  {TrimSuffix(n, Ext(n)) : n \in DOMAIN dirs[1].files}
    \cup {NoteID("A", Clock0), NoteID("Report", Date(2024, 11, 30, 10, 15, 0))}

QueryInputs == {"A!", "WORK", "yx"}
TagQueryInputs == {"wo", " URGENT ", "x"}
DateQueryInputs == {"2024-12-01", "12/02/2024", "2024-12"}

NoResult == [op |-> "none", arg |-> <<>>, err |-> "", notes |-> <<>>]

MgrInit ==
  /\ now = Clock0
  /\ dirs \in Worlds
  /\ result = NoResult
  /\ IdIdle
  /\ CdIdle
  /\ CfgIdle
  /\ LdIdle
  /\ TuiIdle

\* One second passes between two calls.
Tick ==
  /\ result = NoResult
  /\ now < Clock0 + MaxTicks
  /\ now' = now + 1
  /\ UNCHANGED <<dirs, result, idVars, cdVars, cfgVars, ldVars, tuiVars>>

\* The caller has taken what the call returned (a command prints it and the
\* process ends); calls are made one at a time.
Return ==
  /\ result # NoResult
  /\ result' = NoResult
  /\ UNCHANGED <<now, dirs, idVars, cdVars, cfgVars, ldVars, tuiVars>>

CreateNote ==
  /\ result = NoResult
  /\ \E i \in NoteInputs, format \in FormatInputs :
       LET note == NewNote(i.title, i.content, i.tags, format, now)
       IN  /\ Cardinality(DOMAIN dirs[1].files \cup {note.Filename}) <= MaxFiles
           /\ dirs' = WriteNote(dirs, note)
           /\ result' = [op |-> "create", arg |-> i, err |-> "", notes |-> <<note>>]
  /\ UNCHANGED <<now, idVars, cdVars, cfgVars, ldVars, tuiVars>>

GetNote ==
  /\ result = NoResult
  /\ \E id \in IdInputs :
       \E got \in GetOutcomes(dirs, id, now) :
         result' = [op |-> "get", arg |-> id, err |-> got.err,
                    notes |-> IF got.err = "" THEN <<got.note>> ELSE <<>>]
  /\ UNCHANGED <<now, dirs, idVars, cdVars, cfgVars, ldVars, tuiVars>>

UpdateNote ==
  /\ result = NoResult
  /\ \E id \in IdInputs, i \in UpdateInputs :
       \E got \in GetOutcomes(dirs, id, now) :
         LET note == [got.note EXCEPT !.Title = i.title, !.Content = i.content,
                                      !.Tags = i.tags, !.Modified = now]
         IN  IF got.err # ""
             THEN /\ result' = [op |-> "update", arg |-> <<id, i>>, err |-> got.err, notes |-> <<>>]
                  /\ UNCHANGED dirs
             ELSE /\ dirs' = WriteNote(dirs, note)
                  /\ result' = [op |-> "update", arg |-> <<id, i>>, err |-> "", notes |-> <<note>>]
  /\ UNCHANGED <<now, idVars, cdVars, cfgVars, ldVars, tuiVars>>

DeleteNote ==
  /\ result = NoResult
  /\ \E id \in IdInputs :
       \E got \in GetOutcomes(dirs, id, now) :
         IF got.err # ""
         THEN /\ result' = [op |-> "delete", arg |-> id, err |-> got.err, notes |-> <<>>]
              /\ UNCHANGED dirs
         ELSE /\ dirs' = RemoveFile(dirs, got.note.Filename)
              /\ result' = [op |-> "delete", arg |-> id, err |-> "", notes |-> <<>>]
  /\ UNCHANGED <<now, idVars, cdVars, cfgVars, ldVars, tuiVars>>

ListNotes ==
  /\ result = NoResult
  /\ \E listed \in ListOutcomes(dirs, now) :
       result' = [op |-> "list", arg |-> <<>>, err |-> listed.err, notes |-> listed.notes]
  /\ UNCHANGED <<now, dirs, idVars, cdVars, cfgVars, ldVars, tuiVars>>

SearchNotes ==
  /\ result = NoResult
  /\ \E listed \in ListOutcomes(dirs, now) :
       \E query \in QueryInputs :
         result' = [op |-> "search", arg |-> query, err |-> listed.err,
                    notes |-> IF listed.err # "" THEN <<>> ELSE KeywordMatches(listed.notes, query)]
  /\ UNCHANGED <<now, dirs, idVars, cdVars, cfgVars, ldVars, tuiVars>>

SearchByTag ==
  /\ result = NoResult
  /\ \E listed \in ListOutcomes(dirs, now) :
       \E tag \in TagQueryInputs :
         result' = [op |-> "searchByTag", arg |-> tag, err |-> listed.err,
                    notes |-> IF listed.err # "" THEN <<>> ELSE TagMatches(listed.notes, tag)]
  /\ UNCHANGED <<now, dirs, idVars, cdVars, cfgVars, ldVars, tuiVars>>

SearchByDate ==
  /\ result = NoResult
  /\ \E listed \in ListOutcomes(dirs, now) :
       \E dateQuery \in DateQueryInputs :
         result' = [op |-> "searchByDate", arg |-> dateQuery, err |-> listed.err,
                    notes |-> IF listed.err # "" THEN <<>> ELSE DateMatches(listed.notes, dateQuery)]
  /\ UNCHANGED <<now, dirs, idVars, cdVars, cfgVars, ldVars, tuiVars>>

Next ==
  \/ Tick
  \/ Return
  \/ CreateNote
  \/ GetNote
  \/ UpdateNote
  \/ DeleteNote
  \/ ListNotes
  \/ SearchNotes
  \/ SearchByTag
  \/ SearchByDate

Spec == MgrInit /\ [][Next]_vars


(***************************************************************************)
(* Specification SpecCli: the create command of the command line, run on   *)
(* the configured directories while the clock advances.                    *)
(***************************************************************************)
\* The values of the --title, --content and --tags flags.
CmdInputs ==
  {[title |-> "A", content |-> "Yx", tags |-> "Work"],
   [title |-> "a!", content |-> "", tags |-> "work, Urgent"],
   [title |-> "Doc", content |-> "", tags |-> ""]}

\* The values of the --format flag.
CmdFormats == {"txt", "org", "md", "rtf"}

\* runCreate, lines 52-58: the tag list read from the --tags flag.
CmdTagList(tags) ==
  IF tags = "" THEN <<>>
  ELSE [i \in DOMAIN Split(tags, ",") |-> TrimSpace(Split(tags, ",")[i])]

\* runCreate: a format other than txt and org ends the command with a message
\* and exit status 1 before anything is written; otherwise the note is created.
runCreate ==
  /\ result = NoResult
  /\ \E i \in CmdInputs, format \in CmdFormats :
       IF format # "txt" /\ format # "org"
       THEN /\ result' = [op |-> "runCreate", arg |-> <<i, format>>,
                          err |-> "Error: format must be 'txt' or 'org'", notes |-> <<>>]
            /\ UNCHANGED dirs
       ELSE LET note == NewNote(i.title, i.content, CmdTagList(i.tags), format, now)
            IN  /\ Cardinality(DOMAIN dirs[1].files \cup {note.Filename}) <= MaxFiles
                /\ dirs' = WriteNote(dirs, note)
                /\ result' = [op |-> "runCreate", arg |-> <<i, format>>, err |-> "",
                              notes |-> <<note>>]
  /\ UNCHANGED <<now, idVars, cdVars, cfgVars, ldVars, tuiVars>>

CliNext == Tick \/ Return \/ runCreate

SpecCli == MgrInit /\ [][CliNext]_vars

(***************************************************************************)
(* Specification SpecConfig: the add-dir and remove-dir commands run one   *)
(* after the other on the configuration file (config/config.go).           *)
(***************************************************************************)
\* os.UserHomeDir() of the user running the commands.
HomeDir == "/h"

\* filepath.Join of two clean elements.
filepathJoin(a, b) == a \o "/" \o b

\* expandTilde: a leading ~/ becomes the home directory.
expandTilde(path) ==
  IF HasPrefix(path, "~/") THEN filepathJoin(HomeDir, SubSeq(path, 3, Len(path))) ELSE path

\* LoadConfig, lines 87-97: the list read from the file, each entry expanded.
LoadConfig(file) == [i \in DOMAIN file |-> expandTilde(file[i])]

\* SaveConfig: the list replaces the one in the file, unless the file cannot
\* be opened for writing, which leaves it as it was.
SaveConfig(config, file, canSave) ==
  IF canSave THEN [err |-> "", file |-> config, made |-> {}]
  ELSE [err |-> "open /h/.burhrc.yaml: permission denied", file |-> file, made |-> {}]

\* The values of the --path flag of both commands.
PathInputs == {"/h/notes", "~/notes", "/b", "/c", "/ro/x"}

\* The directories os.MkdirAll cannot create.
Uncreatable == {"/ro/x"}

\* What the file lists when the first command runs: the default, the default
\* written with a tilde, two directories, and a list edited by hand to name
\* one directory twice.
ConfigWorlds ==
  {<<"/h/notes">>, <<"~/notes">>, <<"/b", "/h/notes">>, <<"/b", "/b">>}

\* The commands stop adding at this many directories.
MaxDirs == 3

\* The loop over config.NotesDirs that compares each entry with the directory.
Listed(config, dir) == \E i \in DOMAIN config : config[i] = dir

AddNotesDirectoryNoCheck(file, newDir, canSave) ==
  LET config == LoadConfig(file)
      dir == expandTilde(newDir)
  IN  IF dir \in Uncreatable
      THEN [err |-> "failed to create directory " \o dir, file |-> file, made |-> {}]
      ELSE [SaveConfig(Append(config, dir), file, canSave) EXCEPT !.made = {dir}]

\* AddNotesDirectory: refuses a directory already listed, creates the
\* directory, appends it and saves.
AddNotesDirectory(file, newDir, canSave) ==
  LET config == LoadConfig(file)
      dir == expandTilde(newDir)
  IN  IF Listed(config, dir)
      THEN [err |-> "directory " \o dir \o " is already in the configuration",
            file |-> file, made |-> {}]
      ELSE IF dir \in Uncreatable
      THEN [err |-> "failed to create directory " \o dir, file |-> file, made |-> {}]
      ELSE [SaveConfig(Append(config, dir), file, canSave) EXCEPT !.made = {dir}]

RemoveNotesDirectoryNoFloor(file, dirToRemove, canSave) ==
  LET config == LoadConfig(file)
      dir == expandTilde(dirToRemove)
      newDirs == SelectSeq(config, LAMBDA d : d # dir)
  IN  IF ~Listed(config, dir)
      THEN [err |-> "directory " \o dir \o " not found in configuration",
            file |-> file, made |-> {}]
      ELSE SaveConfig(newDirs, file, canSave)

\* RemoveNotesDirectory: drops every entry equal to the directory, refuses a
\* directory that is not listed and a removal that leaves none, and saves.
RemoveNotesDirectory(file, dirToRemove, canSave) ==
  LET config == LoadConfig(file)
      dir == expandTilde(dirToRemove)
      newDirs == SelectSeq(config, LAMBDA d : d # dir)
  IN  IF ~Listed(config, dir)
      THEN [err |-> "directory " \o dir \o " not found in configuration",
            file |-> file, made |-> {}]
      ELSE IF Len(newDirs) = 0
      THEN [err |-> "cannot remove all directories - at least one must remain",
            file |-> file, made |-> {}]
      ELSE SaveConfig(newDirs, file, canSave)

NoCfgOut == [op |-> "none", arg |-> "", err |-> ""]

ConfigInit ==
  /\ configFile \in ConfigWorlds
  /\ madeDirs = {}
  /\ cfgOut = NoCfgOut
  /\ IdIdle
  /\ CdIdle
  /\ MgrIdle
  /\ LdIdle
  /\ TuiIdle

\* runAddDir: the command reports the error, or the list it reloads.
runAddDir ==
  /\ cfgOut = NoCfgOut
  /\ Len(configFile) < MaxDirs
  /\ \E addDirPath \in PathInputs, canSave \in BOOLEAN :
       LET r == AddNotesDirectory(configFile, addDirPath, canSave)
       IN  /\ configFile' = r.file
           /\ madeDirs' = madeDirs \cup r.made
           /\ cfgOut' = [op |-> "add-dir", arg |-> addDirPath, err |-> r.err]
  /\ UNCHANGED <<idVars, cdVars, mgrVars, ldVars, tuiVars>>

\* runRemoveDir: the command reports the error, or the list it reloads.
runRemoveDir ==
  /\ cfgOut = NoCfgOut
  /\ \E removeDirPath \in PathInputs, canSave \in BOOLEAN :
       LET r == RemoveNotesDirectory(configFile, removeDirPath, canSave)
       IN  /\ configFile' = r.file
           /\ cfgOut' = [op |-> "remove-dir", arg |-> removeDirPath, err |-> r.err]
  /\ UNCHANGED <<madeDirs, idVars, cdVars, mgrVars, ldVars, tuiVars>>

\* The command's process has ended; the next command starts.
CommandExit ==
  /\ cfgOut # NoCfgOut
  /\ cfgOut' = NoCfgOut
  /\ UNCHANGED <<configFile, madeDirs, idVars, cdVars, mgrVars, ldVars, tuiVars>>

ConfigNext == runAddDir \/ runRemoveDir \/ CommandExit

SpecConfig == ConfigInit /\ [][ConfigNext]_vars

(***************************************************************************)
(* Specification SpecLoad: one file name loaded twice by loadNoteFromFile, *)
(* each time with another body, at two instants.                           *)
(***************************************************************************)
\* File names: stamped by CreateNote, stamped with the zero time, stamped with
\* a month that does not exist, and without a stamp.
LoadNames ==
  {"20241201_235959_a.txt", "20241202_000000_a.org", "00010101_000000_a.txt",
   "20241301_000000_a.txt", "README.md"}

\* Bodies whose date lines differ.
LoadBodies ==
  {"Title: a" \o NL \o "Created: 2024-12-01 23:59:59" \o NL \o "Modified: 2024-12-01 23:59:59"
     \o NL \o NL \o "x",
   "Title: a" \o NL \o "Created: 1999-01-01 00:00:00" \o NL \o "Modified: 2030-01-01 00:00:00"
     \o NL \o NL \o "x",
   "#+TITLE: a" \o NL \o "#+DATE: 2024-12-01" \o NL \o NL \o "x",
   "#+TITLE: a" \o NL \o "#+DATE: 1999-01-01" \o NL \o NL \o "x",
   ""}

LoadInit ==
  /\ ldName \in LoadNames
  /\ ldBodies \in LoadBodies \X LoadBodies
  /\ ldOut = <<>>
  /\ IdIdle
  /\ CdIdle
  /\ MgrIdle
  /\ CfgIdle
  /\ TuiIdle

\* loadNoteFromFile called on the file with its first body, then with its
\* second body, the clock not going back in between.
LoadTwice ==
  /\ ldOut = <<>>
  /\ \E c1 \in Instants, c2 \in Instants :
       /\ c1 <= c2
       /\ \E r1 \in loadNoteFromFile(ldName, [text |-> ldBodies[1], readable |-> TRUE], c1),
             r2 \in loadNoteFromFile(ldName, [text |-> ldBodies[2], readable |-> TRUE], c2) :
            ldOut' = <<r1.note, r2.note>>
  /\ UNCHANGED <<ldName, ldBodies, idVars, cdVars, mgrVars, cfgVars, tuiVars>>

LoadNext == LoadTwice

SpecLoad == LoadInit /\ [][LoadNext]_vars

(***************************************************************************)
(* The interactive UI (the Model of the Bubble Tea program).  Its handlers *)
(* are operators on the record of the Model's fields; they reach the disk  *)
(* through the Manager, whose ListNotes result is the variable catalog:    *)
(* the notes of one directory in file name order.  A handler returns       *)
(* [m, catalog, cmd]: the Model, the disk, and the command it hands back.  *)
(***************************************************************************)
\* NewModel: the fields the handlers read or write.
NewModel ==
  [notes |-> <<>>, selected |-> 0, searchQuery |-> "", state |-> "list",
   titleInput |-> "", contentInput |-> "", tagsInput |-> "", formatInput |-> "txt",
   currentField |-> 0, deleteTarget |-> "",
   searchType |-> "keyword", keywordQuery |-> "", tagQuery |-> "", dateQuery |-> "",
   searchField |-> 0, pageSize |-> 29, startIndex |-> 0]

\* The note a file of the catalog loads as: NewNote with the creation time
\* read back from the stamp of its name.
StoredNote(title, content, tags, format, t) ==
  [NewNote(title, content, tags, format, t) EXCEPT !.CreatedSub = FALSE]

\* Manager.DeleteNote on the catalog: the first file whose name begins with
\* the id is removed; an error when there is none.
CatalogDelete(cat, id) ==
  LET hits == {i \in DOMAIN cat : HasPrefix(cat[i].Filename, id)}
      first == CHOOSE i \in hits : \A j \in hits : i <= j
  IN  IF hits = {} THEN [err |-> "note not found: " \o id, catalog |-> cat]
      ELSE [err |-> "",
            catalog |-> SubSeq(cat, 1, first - 1) \o SubSeq(cat, first + 1, Len(cat))]

\* Manager.CreateNote on the catalog: the file of the new note replaces a file
\* of the same name, or takes its place in file name order.
CatalogCreate(cat, title, content, tags, format, clock) ==
  LET note == NewNote(title, content, tags, format, clock)
      same == {i \in DOMAIN cat : cat[i].Filename = note.Filename}
      before == Cardinality({i \in DOMAIN cat : StrLess(cat[i].Filename, note.Filename)})
  IN  IF same # {} THEN [i \in DOMAIN cat |-> IF i \in same THEN note ELSE cat[i]]
      ELSE SubSeq(cat, 1, before) \o <<note>> \o SubSeq(cat, before + 1, Len(cat))

\* What a handler returns when it changes the Model only.
Only(mm, cat) == [m |-> mm, catalog |-> cat, cmd |-> "none"]

\* handleListKey
handleListKey(mm, cat, key) ==
  IF key = "j" \/ key = "down"
  THEN IF mm.selected < Len(mm.notes) - 1
       THEN Only([mm EXCEPT !.selected = mm.selected + 1,
                            !.startIndex = IF mm.selected + 1 >= mm.startIndex + mm.pageSize
                                           THEN mm.selected + 1 - mm.pageSize + 1
                                           ELSE mm.startIndex], cat)
       ELSE Only(mm, cat)
  ELSE IF key = "k" \/ key = "up"
  THEN IF mm.selected > 0
       THEN Only([mm EXCEPT !.selected = mm.selected - 1,
                            !.startIndex = IF mm.selected - 1 < mm.startIndex
                                           THEN mm.selected - 1 ELSE mm.startIndex], cat)
       ELSE Only(mm, cat)
  ELSE IF key = "J"
  THEN IF Len(mm.notes) > 0
       THEN Only([mm EXCEPT !.selected = Len(mm.notes) - 1,
                            !.startIndex = IF Len(mm.notes) > mm.pageSize
                                           THEN Len(mm.notes) - mm.pageSize ELSE 0], cat)
       ELSE Only(mm, cat)
  ELSE IF key = "K"
  THEN Only([mm EXCEPT !.selected = 0, !.startIndex = 0], cat)
  ELSE IF key = "n"
  THEN Only([mm EXCEPT !.state = "create", !.titleInput = "", !.contentInput = "",
                       !.tagsInput = "", !.formatInput = "txt", !.currentField = 0], cat)
  ELSE IF key = "s"
  THEN Only([mm EXCEPT !.state = "search", !.searchQuery = "", !.searchType = "keyword",
                       !.keywordQuery = "", !.tagQuery = "", !.dateQuery = "",
                       !.searchField = 0], cat)
  ELSE IF key = "d"
  THEN IF Len(mm.notes) > 0 /\ mm.selected < Len(mm.notes)
       THEN Only([mm EXCEPT !.deleteTarget = mm.notes[mm.selected + 1].ID,
                            !.state = "confirm_delete"], cat)
       ELSE Only(mm, cat)
  ELSE IF key = "r"
  THEN [m |-> mm, catalog |-> cat, cmd |-> "loadNotes"]
  ELSE Only(mm, cat)

\* performSearch: a search that returns no note returns a nil slice, and a
\* nil slice leaves the Model as it is.
performSearch(mm, cat) ==
  LET results ==
        IF mm.searchType = "keyword"
        THEN (IF mm.keywordQuery # "" THEN KeywordMatches(cat, mm.keywordQuery) ELSE <<>>)
        ELSE IF mm.searchType = "tag"
        THEN (IF mm.tagQuery # "" THEN TagMatches(cat, mm.tagQuery) ELSE <<>>)
        ELSE IF mm.searchType = "date"
        THEN (IF mm.dateQuery # "" THEN DateMatches(cat, mm.dateQuery) ELSE <<>>)
        ELSE <<>>
  IN  IF Len(results) # 0
      THEN [mm EXCEPT !.notes = results, !.selected = 0, !.startIndex = 0]
      ELSE mm

\* s[:len(s)-1] of a non-empty string, the string itself when it is empty.
DropLast(str) == IF Len(str) > 0 THEN SubSeq(str, 1, Len(str) - 1) ELSE str

\* handleSearchKey
handleSearchKey(mm, cat, key) ==
  IF key = "esc"
  THEN Only([mm EXCEPT !.state = "list", !.searchQuery = "", !.searchType = "keyword",
                       !.keywordQuery = "", !.tagQuery = "", !.dateQuery = "",
                       !.searchField = 0], cat)
  ELSE IF key = "enter"
  THEN Only([performSearch(mm, cat) EXCEPT !.state = "list"], cat)
  ELSE IF key = "tab"
  THEN Only([mm EXCEPT !.searchField = (mm.searchField + 1) % 4], cat)
  ELSE IF key = "shift+tab"
  THEN Only([mm EXCEPT !.searchField = (mm.searchField - 1 + 4) % 4], cat)
  ELSE IF key = "backspace"
  THEN IF mm.searchField = 0
       THEN Only([mm EXCEPT !.searchType = IF mm.searchType = "keyword" THEN "date"
                                           ELSE IF mm.searchType = "tag" THEN "keyword"
                                           ELSE IF mm.searchType = "date" THEN "tag"
                                           ELSE mm.searchType], cat)
       ELSE IF mm.searchField = 1
       THEN Only([mm EXCEPT !.keywordQuery = DropLast(mm.keywordQuery)], cat)
       ELSE IF mm.searchField = 2
       THEN Only([mm EXCEPT !.tagQuery = DropLast(mm.tagQuery)], cat)
       ELSE Only([mm EXCEPT !.dateQuery = DropLast(mm.dateQuery)], cat)
  ELSE IF key = "space"
  THEN IF mm.searchField = 0
       THEN Only([mm EXCEPT !.searchType = IF mm.searchType = "keyword" THEN "tag"
                                           ELSE IF mm.searchType = "tag" THEN "date"
                                           ELSE IF mm.searchType = "date" THEN "keyword"
                                           ELSE mm.searchType], cat)
       ELSE IF mm.searchField = 1
       THEN Only([mm EXCEPT !.keywordQuery = mm.keywordQuery \o " "], cat)
       ELSE IF mm.searchField = 2
       THEN Only([mm EXCEPT !.tagQuery = mm.tagQuery \o " "], cat)
       ELSE Only([mm EXCEPT !.dateQuery = mm.dateQuery \o " "], cat)
  ELSE IF Len(key) = 1
  THEN IF mm.searchField = 1
       THEN Only([mm EXCEPT !.keywordQuery = mm.keywordQuery \o key], cat)
       ELSE IF mm.searchField = 2
       THEN Only([mm EXCEPT !.tagQuery = mm.tagQuery \o key], cat)
       ELSE IF mm.searchField = 3
       THEN Only([mm EXCEPT !.dateQuery = mm.dateQuery \o key], cat)
       ELSE Only(mm, cat)
  ELSE Only(mm, cat)

\* createNote: nothing without a title; the tags are the pieces of the tags
\* input between commas, trimmed.
createNote(mm, cat, clock) ==
  LET parts == Split(mm.tagsInput, ",")
      tags == [i \in DOMAIN parts |-> TrimSpace(parts[i])]
  IN  IF mm.titleInput = "" THEN cat
      ELSE CatalogCreate(cat, mm.titleInput, mm.contentInput, tags, mm.formatInput, clock)

\* handleCreateKey
handleCreateKey(mm, cat, key, clock) ==
  IF key = "esc"
  THEN Only([mm EXCEPT !.state = "list", !.currentField = 0], cat)
  ELSE IF key = "ctrl+s" \/ (key = "enter" /\ mm.currentField = 3)
  THEN [m |-> [mm EXCEPT !.state = "list", !.currentField = 0],
        catalog |-> createNote(mm, cat, clock), cmd |-> "loadNotes"]
  ELSE IF key = "tab" \/ key = "enter"
  THEN Only([mm EXCEPT !.currentField = (mm.currentField + 1) % 4], cat)
  ELSE IF key = "shift+tab"
  THEN Only([mm EXCEPT !.currentField = (mm.currentField - 1 + 4) % 4], cat)
  ELSE IF key = "backspace"
  THEN IF mm.currentField = 0
       THEN Only([mm EXCEPT !.titleInput = DropLast(mm.titleInput)], cat)
       ELSE IF mm.currentField = 1
       THEN Only([mm EXCEPT !.tagsInput = DropLast(mm.tagsInput)], cat)
       ELSE IF mm.currentField = 2
       THEN Only([mm EXCEPT !.formatInput = DropLast(mm.formatInput)], cat)
       ELSE Only([mm EXCEPT !.contentInput = DropLast(mm.contentInput)], cat)
  ELSE IF Len(key) = 1
  THEN IF mm.currentField = 0
       THEN Only([mm EXCEPT !.titleInput = mm.titleInput \o key], cat)
       ELSE IF mm.currentField = 1
       THEN Only([mm EXCEPT !.tagsInput = mm.tagsInput \o key], cat)
       ELSE IF mm.currentField = 2
       THEN Only([mm EXCEPT !.formatInput = mm.formatInput \o key], cat)
       ELSE Only([mm EXCEPT !.contentInput = mm.contentInput \o key], cat)
  ELSE Only(mm, cat)

\* deleteNote: nothing when the Manager returns an error; otherwise the notes are
\* listed again, the selection is pulled back into the list, and the page
\* starts at the top.
deleteNote(mm, cat, id) ==
  LET del == CatalogDelete(cat, id)
      notes == del.catalog
  IN  IF del.err # "" THEN Only(mm, cat)
      ELSE Only([mm EXCEPT !.notes = notes,
                           !.selected = IF mm.selected >= Len(notes) /\ Len(notes) > 0
                                        THEN Len(notes) - 1 ELSE mm.selected,
                           !.startIndex = 0],
                del.catalog)

\* handleConfirmDeleteKey
handleConfirmDeleteKey(mm, cat, key) ==
  IF key = "y"
  THEN LET done == IF mm.deleteTarget # "" THEN deleteNote(mm, cat, mm.deleteTarget)
                   ELSE Only(mm, cat)
       IN  Only([done.m EXCEPT !.state = "list", !.deleteTarget = ""], done.catalog)
  ELSE IF key = "n"
  THEN Only([mm EXCEPT !.state = "list", !.deleteTarget = ""], cat)
  ELSE Only(mm, cat)

\* Update, case notesLoadedMsg.
notesLoaded(mm, notes) == [mm EXCEPT !.notes = notes, !.selected = 0, !.startIndex = 0]

(***************************************************************************)
(* Specification SpecTui: key events handled one at a time by Update while *)
(* loadNotes commands run beside it and deliver their messages later.      *)
(***************************************************************************)
\* The commands that may be running at once.
MaxInFlight == 1
\* The characters typed into the fields of one form.
MaxTyped == 1

\* What the directory holds when the program starts: nothing, or two notes.
TuiCatalogs ==
  {<<>>,
   <<StoredNote("Alpha", "x", <<"work">>, "txt", Date(2024, 11, 30, 10, 15, 0)),
     StoredNote("Beta", "", <<>>, "org", Date(2024, 11, 30, 10, 15, 1))>>}

\* The keys pressed in each view.
ListKeys == {"j", "k", "J", "K", "n", "s", "d", "r"}
SearchKeys == {"esc", "enter", "tab", "backspace", "w"}
CreateKeys == {"esc", "ctrl+s", "w"}
ConfirmKeys == {"y", "n"}

\* A loadNotes command that has not called ListNotes yet.
Issued == [read |-> FALSE, notes |-> <<>>]

\* Init: the program starts with the command Model.Init returns.
TuiInit ==
  /\ model = NewModel
  /\ catalog \in TuiCatalogs
  /\ inFlight = <<Issued>>
  /\ IdIdle
  /\ CdIdle
  /\ MgrIdle
  /\ CfgIdle
  /\ LdIdle

\* Update has handled a key: the Model and the disk are as the handler left
\* them and the command it returned is started.
Handled(r) ==
  /\ r.cmd = "loadNotes" => Len(inFlight) < MaxInFlight
  /\ model' = r.m
  /\ catalog' = r.catalog
  /\ inFlight' = IF r.cmd = "loadNotes" THEN Append(inFlight, Issued) ELSE inFlight
  /\ UNCHANGED <<idVars, cdVars, mgrVars, cfgVars, ldVars>>

ListKey ==
  /\ model.state = "list"
  /\ \E key \in ListKeys : Handled(handleListKey(model, catalog, key))

SearchKey ==
  /\ model.state = "search"
  /\ \E key \in SearchKeys :
       /\ Len(key) = 1 =>
            Len(model.keywordQuery) + Len(model.tagQuery) + Len(model.dateQuery) < MaxTyped
       /\ Handled(handleSearchKey(model, catalog, key))

CreateKey ==
  /\ model.state = "create"
  /\ \E key \in CreateKeys :
       /\ Len(key) = 1 =>
            Len(model.titleInput) + Len(model.tagsInput) + Len(model.contentInput) < MaxTyped
       /\ Handled(handleCreateKey(model, catalog, key, now))

ConfirmDeleteKey ==
  /\ model.state = "confirm_delete"
  /\ \E key \in ConfirmKeys : Handled(handleConfirmDeleteKey(model, catalog, key))

\* loadNotes: a running command calls ListNotes.
loadNotes ==
  /\ \E i \in DOMAIN inFlight :
       /\ ~inFlight[i].read
       /\ inFlight' = [inFlight EXCEPT ![i] = [read |-> TRUE, notes |-> catalog]]
  /\ UNCHANGED <<model, catalog, idVars, cdVars, mgrVars, cfgVars, ldVars>>

\* Update receives the notesLoadedMsg of a command that has finished.
NotesLoaded ==
  /\ \E i \in DOMAIN inFlight :
       /\ inFlight[i].read
       /\ model' = notesLoaded(model, inFlight[i].notes)
       /\ inFlight' = SubSeq(inFlight, 1, i - 1) \o SubSeq(inFlight, i + 1, Len(inFlight))
  /\ UNCHANGED <<catalog, idVars, cdVars, mgrVars, cfgVars, ldVars>>

TuiNext == ListKey \/ SearchKey \/ CreateKey \/ ConfirmDeleteKey \/ loadNotes \/ NotesLoaded

SpecTui == TuiInit /\ [][TuiNext]_vars

(***************************************************************************)
(* Specification SpecTuiPaging: the list view and the delete confirmation  *)
(* over a directory of more notes than one page shows.                     *)
(***************************************************************************)
\* The notes deleted in one run.
MaxDeletes == 1

\* 31 notes created one second after the other.
LongCatalog ==
  [k \in 1..31 |-> StoredNote("n", "", <<>>, "txt", Date(2024, 11, 30, 10, 15, 0) + k)]

PagingKeys == {"j", "k", "J", "K", "d", "r"}

PagingInit ==
  /\ model = NewModel
  /\ catalog = LongCatalog
  /\ inFlight = <<Issued>>
  /\ IdIdle
  /\ CdIdle
  /\ MgrIdle
  /\ CfgIdle
  /\ LdIdle

PagingListKey ==
  /\ model.state = "list"
  /\ \E key \in PagingKeys : Handled(handleListKey(model, catalog, key))

PagingConfirmDeleteKey ==
  /\ Len(catalog) + MaxDeletes > Len(LongCatalog)
  /\ ConfirmDeleteKey

PagingNext == PagingListKey \/ PagingConfirmDeleteKey \/ loadNotes \/ NotesLoaded

SpecTuiPaging == PagingInit /\ [][PagingNext]_vars

(***************************************************************************)
(* Specification SpecId: the identifier scheme applied to bounded inputs.  *)
(***************************************************************************)
TitleAlphabet ==
  {" ", "/", "\\", ":", "*", "?", "\"", "<", ">", "|", "a", "B", "z", "7", "_", "!", "."}

RECURSIVE StringsUpTo(_, _)
StringsUpTo(alphabet, n) ==
  IF n = 0 THEN {""}
  ELSE LET shorter == StringsUpTo(alphabet, n - 1)
       IN  shorter \cup {t \o c : t \in shorter, c \in alphabet}

\* A title of n characters that mixes cases and replaced characters.
LongTitle(n) ==
  LET pattern == "Ab cd:Fg!0" IN Concat([i \in 1..n |-> Char(pattern, ((i - 1) % Len(pattern)) + 1)], 1, n)

IdTitles ==
  StringsUpTo(TitleAlphabet, MaxTitleChars)
    \cup {LongTitle(n) : n \in (MaxTitleLen - 1)..(MaxTitleLen + MaxOver)}

IdInit ==
  /\ idTitle \in IdTitles
  /\ idNow \in Instants
  /\ idOut = ""
  /\ CdIdle
  /\ MgrIdle
  /\ CfgIdle
  /\ LdIdle
  /\ TuiIdle

\* CreateNote, lines 57-61: the id of the note being created.
GenerateID ==
  /\ idOut = ""
  /\ idOut' = NoteID(idTitle, idNow)
  /\ UNCHANGED <<idTitle, idNow, cdVars, mgrVars, cfgVars, ldVars, tuiVars>>

IdNext == GenerateID

SpecId == IdInit /\ [][IdNext]_vars

(***************************************************************************)
(* Specification SpecCodec: a note is serialized in its dialect and the    *)
(* text parsed back, or a hand-written file is parsed; a file that was     *)
(* written may then be loaded and written again.                           *)
(***************************************************************************)
NoOut == <<>>

CodecTitles == {"a", "Ab"}
CodecContents == {"", "a", "x y", "p\\nq", "Tags: z"}
CodecTagLists == {<<>>, <<"work">>, <<"work", "Urgent">>}
Formats == {"org", "txt", "md"}

CodecNotes ==
  {[Title |-> t, Content |-> c, Tags |-> g, Created |-> Clock0, Modified |-> m] :
     t \in CodecTitles, c \in CodecContents, g \in CodecTagLists, m \in Instants}

OrgLinePool ==
  {"", "#+TITLE: Plan", "#+title: low", "#+TITLE:", "#+TAGS: work urgent",
   "#+FILETAGS: :work:home:", "* Review :work:planning:", "  * Sub :x:", "body :b:"}

TxtLinePool ==
  {"", "Title: Plan", "Title:", "Tags: tag1,,tag2", "Tags: x , y", "Created: 2024",
   "Modified: 2024", "body", "title: low", "Plan"}

SeqsUpTo(pool, n) == UNION {[1..k -> pool] : k \in 0..n}

RawTexts(pool) == {Join(lines, NL) : lines \in SeqsUpTo(pool, MaxLines)}

CodecInit ==
  /\ cdFormat \in Formats
  /\ \/ cdStage = "note" /\ cdNote \in CodecNotes /\ cdText = ""
     \/ /\ cdStage = "text" /\ cdNote = NoNote
        /\ cdText \in RawTexts(IF cdFormat = "org" THEN OrgLinePool ELSE TxtLinePool)
  /\ cdOut = NoOut
  /\ IdIdle
  /\ MgrIdle
  /\ CfgIdle
  /\ LdIdle
  /\ TuiIdle

Encode ==
  /\ cdStage = "note"
  /\ cdText' = FileText(cdNote, cdFormat)
  /\ cdStage' = "text"
  /\ UNCHANGED <<cdFormat, cdNote, cdOut, idVars, mgrVars, cfgVars, ldVars, tuiVars>>

Decode ==
  /\ cdStage = "text"
  /\ cdOut' \in ParsedFields(cdText, "." \o cdFormat)
  /\ cdStage' = "parsed"
  /\ UNCHANGED <<cdFormat, cdNote, cdText, idVars, mgrVars, cfgVars, ldVars, tuiVars>>

\* The file the serializer wrote is loaded at some later instant under the
\* name CreateNote gave it, and the loaded note is serialized again.
Reserialize ==
  /\ cdStage = "parsed" /\ cdNote # NoNote
  /\ \E clock \in Instants :
       \E o \in loadNoteFromFile(NoteID(cdNote.Title, cdNote.Created) \o "." \o cdFormat,
                                 [text |-> cdText, readable |-> TRUE], clock) :
         cdOut' = [title |-> o.note.Title, content |-> o.note.Content, tags |-> o.note.Tags,
                   text |-> FileText(o.note, o.note.Format)]
  /\ cdStage' = "rewritten"
  /\ UNCHANGED <<cdFormat, cdNote, cdText, idVars, mgrVars, cfgVars, ldVars, tuiVars>>

CodecNext == Encode \/ Decode \/ Reserialize

SpecCodec == CodecInit /\ [][CodecNext]_vars

(***************************************************************************)
(* Claims about the identifier scheme, checked under SpecId.               *)
(***************************************************************************)
\* What the scheme is to make of one character of the title.
SafeChar(c) == IF c \in Range(UnsafeChars) THEN "_" ELSE LowerChar(c)

\* The title with every character made safe, before any truncation.
SafeTitle(title) == Concat([i \in 1..Len(title) |-> SafeChar(Char(title, i))], 1, Len(title))

TitleSegment(id) == From(id, 16)

\* C1: the id CreateNote assigns at instant t is t as YYYYMMDD_HHMMSS, an
\* underscore, and the title with each of the ten unsafe characters replaced by
\* '_', lowercased and cut to 50 characters: a function of (title, t) alone.
C1_IdIsStampAndSanitizedTitle ==
  idOut # "" =>
    /\ Len(idOut) = 16 + Min(Len(idTitle), MaxTitleLen)
    /\ ParseStamp(SubSeq(idOut, 1, 15)) = [ok |-> TRUE, t |-> idNow]
    /\ Char(idOut, 16) = "_"
    /\ \A i \in 1..Min(Len(idTitle), MaxTitleLen) :
         Char(idOut, 16 + i) = SafeChar(Char(idTitle, i))

C1_Witness == idTitle = "B:" /\ idNow = Clock0 + 1 /\ idOut = "20241202_000000_b_"

IsLowerDigitUnderscore(c) == Contains(LowerAZ, c) \/ c \in DigitChars \/ c = "_"

StampShape(id) ==
  /\ Len(id) >= 16
  /\ IsDigits(SubSeq(id, 1, 8)) /\ Char(id, 9) = "_"
  /\ IsDigits(SubSeq(id, 10, 15)) /\ Char(id, 16) = "_"

\* C2 as claimed: every id matches ^\d{8}_\d{6}_[a-z0-9_]{1,50}$.
C2_IdMatchesShape ==
  idOut # "" =>
    /\ StampShape(idOut)
    /\ Len(TitleSegment(idOut)) \in 1..MaxTitleLen
    /\ \A i \in 1..Len(TitleSegment(idOut)) : IsLowerDigitUnderscore(Char(TitleSegment(idOut), i))

\* C2 as amended: every id is \d{8}_\d{6}_ followed by a title segment of 0 to
\* 50 characters, empty exactly for the empty title, none of which is an
\* uppercase letter or one of the ten replaced characters; a character that is
\* neither (such as '!' or '.') is kept as it is.
C2_IdShapeAmended ==
  idOut # "" =>
    LET seg == TitleSegment(idOut)
    IN  /\ StampShape(idOut)
        /\ Len(seg) \in 0..MaxTitleLen
        /\ (seg = "") <=> (idTitle = "")
        /\ \A i \in 1..Len(seg) :
             /\ ~Contains(UpperAZ, Char(seg, i))
             /\ Char(seg, i) \notin Range(UnsafeChars)
             /\ (~Contains(UpperAZ, Char(idTitle, i)) /\ Char(idTitle, i) \notin Range(UnsafeChars))
                  => Char(seg, i) = Char(idTitle, i)

C2_Witness == idTitle = "B!" /\ idOut # "" /\ TitleSegment(idOut) = "b!"

\* C3: a title whose sanitized form is longer than 50 characters gets exactly
\* the first 50 characters of that form as its title segment; a shorter one
\* is kept whole.
C3_TruncatedToFifty ==
  idOut # "" =>
    LET whole == SafeTitle(idTitle)
    IN  TitleSegment(idOut) = IF Len(whole) > MaxTitleLen THEN SubSeq(whole, 1, MaxTitleLen) ELSE whole

C3_Witness ==
  /\ Len(idTitle) > MaxTitleLen /\ idOut # ""
  /\ Len(TitleSegment(idOut)) = MaxTitleLen
  /\ TitleSegment(idOut) = "ab_cd_fg!0ab_cd_fg!0ab_cd_fg!0ab_cd_fg!0ab_cd_fg!0"

(***************************************************************************)
(* Claims about the codec, checked under SpecCodec.                        *)
(***************************************************************************)
MetadataLabels == {"Title:", "Tags:", "Created:", "Modified:"}

\* No line of the content begins with a metadata label of the plain dialect.
NoLabelLine(content) ==
  \A i \in DOMAIN Split(content, NL) : \A l \in MetadataLabels : ~HasPrefix(Split(content, NL)[i], l)

RoundTripped == cdStage = "parsed" /\ cdNote # NoNote

\* C5: parsing what the plain serializer wrote for title T, tags G and a
\* content C with no line beginning with a metadata label returns T, a tag
\* list set-equal to G, and exactly C.
C5_PlainRoundTrip ==
  (RoundTripped /\ cdFormat # "org" /\ NoLabelLine(cdNote.Content)) =>
    /\ cdOut.title = cdNote.Title
    /\ Range(cdOut.tags) = Range(cdNote.Tags)
    /\ cdOut.content = cdNote.Content

\* C6: parsing what the outline serializer wrote for title T, tags G and
\* content C returns T, a tag list set-equal to G, and exactly C.
C6_OutlineRoundTrip ==
  (RoundTripped /\ cdFormat = "org") =>
    /\ cdOut.title = cdNote.Title
    /\ Range(cdOut.tags) = Range(cdNote.Tags)
    /\ cdOut.content = cdNote.Content

IsTagSeparator(c) == c = ":" \/ IsSpace(c)

\* The maximal runs of characters of v that are neither colons nor white space.
TagTokens(v) ==
  {SubSeq(v, i, j) : <<i, j>> \in
     {ij \in (1..Len(v)) \X (1..Len(v)) :
        /\ ij[1] <= ij[2]
        /\ \A k \in ij[1]..ij[2] : ~IsTagSeparator(Char(v, k))
        /\ (ij[1] = 1 \/ IsTagSeparator(Char(v, ij[1] - 1)))
        /\ (ij[2] = Len(v) \/ IsTagSeparator(Char(v, ij[2] + 1)))}}

\* The last space-separated word of a line.
LastWord(line) == From(line, LastIndex(line, " ") + 1)

\* The tags one line of an outline file is to contribute: the tokens of a
\* #+TAGS: or #+FILETAGS: value, or of the trailing :a:b: block of a line that
\* starts with '*'; lines are taken without their surrounding white space.
ExpectedLineTags(raw) ==
  LET line == TrimSpace(raw)
      upper == ToUpper(line)
  IN  IF HasPrefix(upper, "#+TAGS:") THEN TagTokens(From(line, 7))
      ELSE IF HasPrefix(upper, "#+FILETAGS:") THEN TagTokens(From(line, 11))
      ELSE IF /\ HasPrefix(line, "*") /\ Contains(line, " ")
              /\ HasPrefix(LastWord(line), ":") /\ HasSuffix(LastWord(line), ":")
           THEN TagTokens(LastWord(line))
      ELSE {}

\* C7: the tag list decoded from an outline file is, as a set, the union of the
\* tokens of every #+TAGS: value, every #+FILETAGS: value and every trailing
\* tag block of a '*' line; it has no duplicate and no empty tag.
C7_OutlineTagsAreUnion ==
  (cdStage = "parsed" /\ cdFormat = "org") =>
    /\ Range(cdOut.tags) = UNION {ExpectedLineTags(l) : l \in Range(Split(cdText, NL))}
    /\ \A i, j \in DOMAIN cdOut.tags : cdOut.tags[i] = cdOut.tags[j] => i = j
    /\ "" \notin Range(cdOut.tags)

C7_Witness ==
  /\ cdStage = "parsed" /\ cdFormat = "org"
  /\ cdText = "#+TAGS: work urgent\n* Review :work:planning:"
  /\ Range(cdOut.tags) = {"work", "urgent", "planning"}
  /\ Len(cdOut.tags) = 3

(***************************************************************************)
(* Claims about the Manager, checked under Spec.  A state whose result is   *)
(* not NoResult is the state a call returned in: dirs and now are what the  *)
(* call left behind.                                                        *)
(***************************************************************************)
\* C4: every Note returned by create, get, update, list or a search has
\* filename = id + "." + format.
C4_FilenameIsIdDotFormat ==
  \A i \in DOMAIN result.notes :
    result.notes[i].Filename = result.notes[i].ID \o "." \o result.notes[i].Format

AllReadable(ds) == \A k \in DOMAIN ds : ds[k].readable

\* The names of the files of ds[k..] that have a recognized extension, can be
\* read and hold none of the texts of skipped, directory by directory, by
\* name within a directory.
RECURSIVE ListedNames(_, _, _)
ListedNames(ds, k, skipped) ==
  IF k > Len(ds) THEN <<>>
  ELSE SortedNames({n \in DOMAIN ds[k].files :
                      /\ IsNoteFile(n) /\ ds[k].files[n].readable
                      /\ ds[k].files[n].text \notin skipped})
         \o ListedNames(ds, k + 1, skipped)

FilenamesOf(notes) == [i \in DOMAIN notes |-> notes[i].Filename]

CatalogOps == {"list", "search", "searchByTag", "searchByDate"}

\* C9: when a configured directory cannot be read, list() and every search
\* return an error naming the first such directory and no note at all.
C9_UnreadableDirectoryAborts ==
  (result.op \in CatalogOps /\ ~AllReadable(dirs)) =>
    LET bad == {k \in DOMAIN dirs : ~dirs[k].readable}
        first == CHOOSE k \in bad : \A j \in bad : k <= j
    IN  /\ result.err # ""
        /\ Contains(result.err, dirs[first].path)
        /\ result.notes = <<>>

C9_Witness ==
  /\ result.op = "list" /\ result.notes = <<>>
  /\ dirs[1].readable /\ ~dirs[2].readable
  /\ \E n \in DOMAIN dirs[1].files : IsNoteFile(n)
  /\ Contains(result.err, "/work") /\ ~Contains(result.err, "/notes")

IsSubstring(sub, s) ==
  \E i \in 0..(Len(s) - Len(sub)) : SubSeq(s, i + 1, i + Len(sub)) = sub

\* The note has the lowercased query inside its lowercased title, content or
\* one of its lowercased tags.
MentionsKeyword(note, query) ==
  \E hay \in {note.Title, note.Content} \cup Range(note.Tags) :
    IsSubstring(ToLower(query), ToLower(hay))

\* got is the notes of listed that satisfy Keep, in the order of listed.
IsSelection(got, listed, Keep(_)) ==
  LET kept == {i \in DOMAIN listed : Keep(listed[i])}
  IN  /\ Len(got) = Cardinality(kept)
      /\ \A i \in kept : got[Cardinality({j \in kept : j <= i})] = listed[i]

\* C10: search(q) returns the notes of list(), in list order, whose lowercased
\* title, content or some tag contains lowercase(q); the same query in upper
\* or in lower case selects the same notes.
C10_SearchIsCaseInsensitiveSubstring ==
  (result.op = "search" /\ result.err = "") =>
    \E listed \in ListOutcomes(dirs, now) :
      LET Keep(note) == MentionsKeyword(note, result.arg)
      IN  /\ listed.err = ""
          /\ IsSelection(result.notes, listed.notes, Keep)
          /\ KeywordMatches(listed.notes, ToUpper(result.arg)) = result.notes
          /\ KeywordMatches(listed.notes, ToLower(result.arg)) = result.notes

C10_Witness ==
  /\ result.op = "search" /\ result.arg = "WORK" /\ result.err = ""
  /\ Len(result.notes) = 2
  /\ \A i \in DOMAIN result.notes : "WORK" \notin Range(result.notes[i].Tags)
  /\ \E listed \in ListOutcomes(dirs, now) : Len(listed.notes) = 4

\* The note has a tag whose lowercase form holds the trimmed, lowercased query.
HasTagLike(note, query) ==
  \E tag \in Range(note.Tags) : IsSubstring(ToLower(TrimSpace(query)), ToLower(tag))

\* C11: searchByTag(q) returns the notes of list(), in list order, that have a
\* tag whose lowercase form contains the trimmed, lowercased q; a title or a
\* content holding q does not select a note.
C11_TagSearchIsSubstringOfSomeTag ==
  (result.op = "searchByTag" /\ result.err = "") =>
    \E listed \in ListOutcomes(dirs, now) :
      LET Keep(note) == HasTagLike(note, result.arg)
      IN  listed.err = "" /\ IsSelection(result.notes, listed.notes, Keep)

C11_Witness ==
  /\ result.op = "searchByTag" /\ result.arg = "wo" /\ result.err = ""
  /\ Len(result.notes) = 2
  /\ \A i \in DOMAIN result.notes :
       Range(result.notes[i].Tags) \cap {"Work", "work"} # {} /\ "wo" \notin Range(result.notes[i].Tags)
  /\ \E listed \in ListOutcomes(dirs, now) : Len(listed.notes) > 2

\* The instant 00:00:00 of the day the instant t lies in.
Midnight(t) == Date(Year(t), Month(t), Day(t), 0, 0, 0)

\* C12: searchByDate with a query that parses as a date D returns the listed
\* notes whose creation instant t has midnight(D) <= t < midnight(D) + 24h, a
\* note created at 00:00:00 of D included.
C12_DateWindowIsHalfOpen ==
  (result.op = "searchByDate" /\ result.err = ""
     /\ ParseDateQuery(ToLower(TrimSpace(result.arg))).ok) =>
    \E listed \in ListOutcomes(dirs, now) :
      LET start == Midnight(ParseDateQuery(ToLower(TrimSpace(result.arg))).t)
          Keep(note) == start <= note.Created /\ note.Created < start + 24 * 3600
      IN  listed.err = "" /\ IsSelection(result.notes, listed.notes, Keep)

\* The id a file name stands for: the name without its extension.
IdOfName(name) == TrimSuffix(name, Ext(name))

\* The names of the files of the primary directory whose id is id.
NamesWithId(ds, id) == {n \in DOMAIN ds[1].files : IdOfName(n) = id}

\* The instant an id starts with, if it starts with one.
StampOfId(id) == IF Len(id) >= 15 THEN ParseStamp(SubSeq(id, 1, 15)) ELSE [ok |-> FALSE, t |-> 0]

\* A step in which UpdateNote returned a note.
UpdateReturned == result = NoResult /\ result'.op = "update" /\ result'.err = ""

\* C13: update(id, T, C, G) on an existing note rewrites that note's own file:
\* the returned note has the id asked for, the file name, format and creation
\* time of that note, exactly T, C and G, a modified time not earlier than
\* before, and the directory keeps its file names and its other files.
C13_UpdateRewritesOwnFile ==
  [][(UpdateReturned /\ NamesWithId(dirs, result'.arg[1]) # {}) =>
       LET id == result'.arg[1]
           given == result'.arg[2]
           note == result'.notes[1]
       IN  /\ note.ID = id
           /\ note.Filename \in NamesWithId(dirs, id)
           /\ note.Format = TrimPrefix(Ext(note.Filename), ".")
           /\ StampOfId(id).ok => note.Created = StampOfId(id).t
           /\ note.Title = given.title /\ note.Content = given.content /\ note.Tags = given.tags
           /\ note.Modified = now
           /\ DOMAIN dirs'[1].files = DOMAIN dirs[1].files
           /\ \A n \in DOMAIN dirs[1].files \ {note.Filename} : dirs'[1].files[n] = dirs[1].files[n]
           /\ dirs'[1].files[note.Filename].text = FileText(note, note.Format)]_vars

\* The id a call of get, update or delete was given.
AskedId(res) == IF res.op = "update" THEN res.arg[1] ELSE res.arg

\* C14: with a readable primary directory, get(id) succeeds exactly when a
\* note of that directory has the id, and returns that note; when none has it,
\* get, update and delete return a not-found error and change no file.
C14_GetMatchesWholeId ==
  [][(result = NoResult /\ result'.op \in {"get", "update", "delete"} /\ dirs[1].readable) =>
       LET id == AskedId(result')
       IN  /\ result'.op = "get" =>
                /\ (result'.err = "") <=> (NamesWithId(dirs, id) # {})
                /\ result'.err = "" => result'.notes[1].ID = id
           /\ NamesWithId(dirs, id) = {} =>
                /\ result'.err = "note not found: " \o id
                /\ dirs' = dirs]_vars

\* The file name is that of the note CreateNote wrote for the input at the
\* instant t, and the file still holds the text written then.
IsAsCreated(ds, name, input, format, t) ==
  LET note == NewNote(input.title, input.content, input.tags, format, t)
  IN  /\ name = note.Filename
      /\ ds[1].files[name].text = FileText(note, note.Format)

\* C15: a create returns the id of a note created before in the directory only
\* if that note was created with the same title and within the same second.
C15_SameIdOnlyForSameTitleAndSecond ==
  [][(result = NoResult /\ result'.op = "create") =>
       \A name \in DOMAIN dirs[1].files, input \in NoteInputs, format \in FormatInputs, t \in Instants :
         (IsAsCreated(dirs, name, input, format, t) /\ IdOfName(name) = result'.notes[1].ID)
           => (input.title = result'.arg.title /\ t = now)]_vars

\* The files of the primary directory that are as create wrote them, the first
\* at an earlier instant than the second, the two creates having the titles
\* title1 and title2.
CreatedInOrder(ds, n1, n2, title1, title2) ==
  \E i1 \in NoteInputs, i2 \in NoteInputs, f1 \in FormatInputs, f2 \in FormatInputs,
     t1 \in Instants, t2 \in Instants :
    /\ t1 < t2
    /\ i1.title = title1 /\ i2.title = title2
    /\ IsAsCreated(ds, n1, i1, f1, t1)
    /\ IsAsCreated(ds, n2, i2, f2, t2)

InputTitles == {i.title : i \in NoteInputs}

\* C23: of two notes created in the same directory at instants that differ in
\* their second, the earlier one's id and file name sort before the later
\* one's whatever the titles are, and list() returns the earlier one first.
C23_CreationOrderIsNameOrder ==
  (result.op = "list" /\ result.err = "") =>
    \A n1 \in DOMAIN dirs[1].files, n2 \in DOMAIN dirs[1].files,
       title1 \in InputTitles, title2 \in InputTitles :
      CreatedInOrder(dirs, n1, n2, title1, title2) =>
        /\ StrLess(IdOfName(n1), IdOfName(n2))
        /\ StrLess(n1, n2)
        /\ \E k1 \in DOMAIN result.notes, k2 \in DOMAIN result.notes :
             /\ k1 < k2
             /\ result.notes[k1].Filename = n1
             /\ result.notes[k2].Filename = n2

\* A list of a directory where the note titled "a" was created one second
\* before the note titled "a!".
C23_Witness ==
  /\ result.op = "list" /\ result.err = ""
  /\ \E n1 \in DOMAIN dirs[1].files, n2 \in DOMAIN dirs[1].files :
       CreatedInOrder(dirs, n1, n2, "a", "a!")

\* C24: delete(id) on an existing note (the one file of the primary directory
\* whose id is id) removes exactly that file and leaves every other file as it
\* was; a get(id) right afterwards returns the not-found error.
C24_DeleteRemovesOwnFileOnly ==
  [][(/\ result = NoResult /\ result'.op = "delete"
      /\ dirs[1].readable /\ Cardinality(NamesWithId(dirs, result'.arg)) = 1) =>
       LET id == result'.arg
       IN  /\ result'.err = ""
           /\ \E gone \in NamesWithId(dirs, id) :
                /\ DOMAIN dirs'[1].files = DOMAIN dirs[1].files \ {gone}
                /\ \A n \in DOMAIN dirs'[1].files : dirs'[1].files[n] = dirs[1].files[n]
           /\ dirs'[2] = dirs[2]
           /\ \A got \in GetOutcomes(dirs', id, now) : got.err = "note not found: " \o id]_vars

\* Whether the listing holds a note with the id, title, content and tag set of
\* the given note.
StillListed(note, notes) ==
  \E k \in DOMAIN notes :
    /\ notes[k].ID = note.ID /\ notes[k].Title = note.Title
    /\ notes[k].Content = note.Content /\ Range(notes[k].Tags) = Range(note.Tags)

\* C25: a successful create destroys no existing note: every note list()
\* returned before it is returned after it with the same id, title, content
\* and tags, and the number of listed notes grows by exactly one.
C25_CreateKeepsExistingNotes ==
  [][(result = NoResult /\ result'.op = "create" /\ result'.err = "") =>
       \A before \in ListOutcomes(dirs, now), after \in ListOutcomes(dirs', now) :
         (before.err = "" /\ after.err = "") =>
           /\ Len(after.notes) = Len(before.notes) + 1
           /\ \A k \in DOMAIN before.notes : StillListed(before.notes[k], after.notes)]_vars

\* The directories holding a file of that name with the text the note was
\* read from.
HomesOf(ds, note) ==
  {d \in DOMAIN ds :
     /\ note.Filename \in DOMAIN ds[d].files
     /\ \E o \in loadNoteFromFile(note.Filename, ds[d].files[note.Filename], now) :
          o.err = "" /\ o.note.Title = note.Title /\ o.note.Content = note.Content}

\* C26: every note list() or a search returns can be retrieved with
\* get(note.id), and so updated and deleted, and is opened for editing at its
\* real path (the directory the editor is given is one that holds the note's
\* file), in the second directory as well as in the primary one.
C26_ListedNotesAreReachable ==
  (result.op \in {"list", "search", "searchByTag", "searchByDate"} /\ result.err = "") =>
    \A k \in DOMAIN result.notes :
      LET note == result.notes[k]
      IN  /\ \A got \in GetOutcomes(dirs, note.ID, now) :
               /\ got.err = ""
               /\ got.note.ID = note.ID
               /\ got.note.Filename = note.Filename
          /\ \E d \in HomesOf(dirs, note) : dirs[d].path = GetNotesDir(dirs)

\* The lines of a file before its first empty line: the metadata lines the
\* serializers write ahead of the content.
HeaderLines(text) ==
  LET lines == Split(text, NL)
      blank == {i \in DOMAIN lines : lines[i] = ""}
      last == IF blank = {} THEN Len(lines) ELSE (CHOOSE i \in blank : \A j \in blank : i <= j) - 1
  IN  SubSeq(lines, 1, last)

\* C16: a note loaded from the file the serializer wrote and serialized again
\* with its fields unchanged gives the same metadata lines, in the same order.
C16_ReloadKeepsMetadataLines ==
  cdStage = "rewritten" => HeaderLines(cdOut.text) = HeaderLines(cdText)

\* A line the plain parser reads as metadata or skips: empty, or beginning
\* with one of the four labels.
IsPlainHeader(line) ==
  \/ line = ""
  \/ \E label \in {"Title:", "Tags:", "Created:", "Modified:"} : HasPrefix(line, label)

\* C19: plain parsing is one forward scan: the content is the text from the
\* first line that is neither empty nor a label line to the end of the file,
\* trimmed; no line before it is part of the content, and label lines after it
\* stay in the content and change neither the title nor the tags.
C19_PlainParseIsForwardScan ==
  (cdStage = "parsed" /\ cdNote = NoNote /\ cdFormat # "org") =>
    LET lines == Split(cdText, NL)
        body == {i \in DOMAIN lines : ~IsPlainHeader(lines[i])}
        first == IF body = {} THEN Len(lines) + 1
                 ELSE CHOOSE i \in body : \A j \in body : i <= j
        header == parseTxtNote(Join(SubSeq(lines, 1, first - 1), NL))
    IN  /\ cdOut.content = TrimSpace(Join(SubSeq(lines, first, Len(lines)), NL))
        /\ cdOut.title = header.title
        /\ cdOut.tags = header.tags

\* A line that is not blank and does not begin with the directive prefix.
IsOutlineBody(raw) == TrimSpace(raw) # "" /\ ~HasPrefix(TrimSpace(raw), "#+")

\* C20: in outline parsing, once the first non-blank line that does not begin
\* with #+ has been seen, every later line (a #+TITLE:, #+TAGS: or #+FILETAGS:
\* line too) is content only: the title and the tag set are those the lines up
\* to that one give, and the content is the text from that line on, trimmed.
C20_OutlineDirectivesAfterContentAreContent ==
  (cdStage = "parsed" /\ cdNote = NoNote /\ cdFormat = "org") =>
    LET lines == Split(cdText, NL)
        body == {i \in DOMAIN lines : IsOutlineBody(lines[i])}
        first == IF body = {} THEN Len(lines)
                 ELSE CHOOSE i \in body : \A j \in body : i <= j
        upTo == parseOrgNote(Join(SubSeq(lines, 1, first), NL))
    IN  /\ cdOut.title = upTo.title
        /\ Range(cdOut.tags) = upTo.tags
        /\ cdOut.content = IF body = {} THEN ""
                           ELSE TrimSpace(Join(SubSeq(lines, first, Len(lines)), NL))

\* The pieces of a value between its commas, each trimmed, in order.
PiecesBetweenCommas(value) ==
  LET commas == {i \in 1..Len(value) : SubSeq(value, i, i) = ","}
      cuts == {0} \cup commas \cup {Len(value) + 1}
      Nth(k) == CHOOSE c \in cuts : Cardinality({d \in cuts : d < c}) = k
  IN  [k \in 1..(Cardinality(commas) + 1) |->
         TrimSpace(SubSeq(value, Nth(k - 1) + 1, Nth(k) - 1))]

\* The last Tags: line of a plain file ahead of its content, "" without one.
LastTagsLine(text) ==
  LET lines == Split(text, NL)
      body == {i \in DOMAIN lines : ~IsPlainHeader(lines[i])}
      first == IF body = {} THEN Len(lines) + 1
               ELSE CHOOSE i \in body : \A j \in body : i <= j
      tagged == {i \in 1..(first - 1) : HasPrefix(lines[i], "Tags:")}
  IN  IF tagged = {} THEN "" ELSE lines[CHOOSE i \in tagged : \A j \in tagged : i >= j]

\* C21: the tag list decoded from a plain Tags: line is its value split on
\* every comma, each piece trimmed, in order, empty pieces kept as empty tags.
C21_PlainTagsSplitOnCommaKeepEmpty ==
  (cdStage = "parsed" /\ cdNote = NoNote /\ cdFormat # "org"
     /\ LastTagsLine(cdText) # "") =>
    cdOut.tags = PiecesBetweenCommas(SubSeq(LastTagsLine(cdText), 6, Len(LastTagsLine(cdText))))

\* 'Tags: tag1,,tag2' has been decoded to the three tags.
C21_Witness ==
  /\ cdStage = "parsed" /\ cdNote = NoNote /\ cdFormat = "txt"
  /\ LastTagsLine(cdText) = "Tags: tag1,,tag2"
  /\ cdOut.tags = <<"tag1", "", "tag2">>

(***************************************************************************)
(* Claims about the command line, checked under SpecCli.                   *)
(***************************************************************************)
DocumentedFormats == {"txt", "org", "md"}

\* C17: the create command run with -f txt, -f org or -f md ends without an
\* error and leaves a note file with that extension in the primary directory.
C17_CreateCommandAcceptsDocumentedFormats ==
  (result.op = "runCreate" /\ result.arg[2] \in DocumentedFormats) =>
    /\ result.err = ""
    /\ \E n \in DOMAIN dirs[1].files :
         /\ Ext(n) = "." \o result.arg[2]
         /\ n = result.notes[1].Filename

(***************************************************************************)
(* Claims about the configuration commands, checked under SpecConfig.      *)
(***************************************************************************)
\* A remove-dir command whose directory is every entry of the list.
RemovesEveryEntry ==
  /\ cfgOut = NoCfgOut
  /\ cfgOut'.op = "remove-dir"
  /\ \A i \in DOMAIN configFile :
       expandTilde(configFile[i]) = expandTilde(cfgOut'.arg)

\* C18: starting from a list of at least one directory, the saved list is
\* never empty after any sequence of add-dir and remove-dir commands, and a
\* remove-dir that would leave no directory reports an error and leaves the
\* saved configuration as it was.
C18_DirectoryListNeverEmpty ==
  /\ [](Len(configFile) >= 1)
  /\ [][RemovesEveryEntry => cfgOut'.err # "" /\ configFile' = configFile]_vars

\* A remove-dir has been refused for leaving no directory, after an add-dir
\* had extended the list.
C18_Witness ==
  /\ cfgOut.op = "remove-dir"
  /\ cfgOut.err = "cannot remove all directories - at least one must remain"
  /\ madeDirs # {}
  /\ Len(configFile) = 1

\* No path occurs twice in the list.
DuplicateFree(config) ==
  \A i, j \in DOMAIN config : config[i] = config[j] => i = j

\* The command that has just run was given a path the loaded list holds.
PathWasListed == Listed(LoadConfig(configFile), expandTilde(cfgOut'.arg))

\* C30: a command run on a list without a duplicate leaves a list without a
\* duplicate; an add-dir that succeeds leaves the loaded list extended at its
\* end by the new path, its first directory as it was; an add-dir of a path
\* already listed and a remove-dir of a path not listed report an error and
\* leave the saved configuration as it was.
C30_DirectoryListStaysDuplicateFree ==
  /\ [][DuplicateFree(LoadConfig(configFile)) =>
          DuplicateFree(LoadConfig(configFile'))]_vars
  /\ [][(cfgOut = NoCfgOut /\ cfgOut'.op = "add-dir" /\ cfgOut'.err = "") =>
          /\ LoadConfig(configFile') =
               Append(LoadConfig(configFile), expandTilde(cfgOut'.arg))
          /\ LoadConfig(configFile')[1] = LoadConfig(configFile)[1]]_vars
  /\ [][(cfgOut = NoCfgOut /\ cfgOut'.op = "add-dir" /\ PathWasListed) =>
          cfgOut'.err # "" /\ configFile' = configFile]_vars
  /\ [][(cfgOut = NoCfgOut /\ cfgOut'.op = "remove-dir" /\ ~PathWasListed) =>
          cfgOut'.err # "" /\ configFile' = configFile]_vars

\* An add-dir has been refused for a path that an earlier add-dir had
\* appended to a list without a duplicate.
C30_Witness ==
  /\ cfgOut.op = "add-dir"
  /\ cfgOut.err =
       "directory " \o expandTilde(cfgOut.arg) \o " is already in the configuration"
  /\ DuplicateFree(configFile)
  /\ Len(configFile) >= 2
  /\ configFile[Len(configFile)] = expandTilde(cfgOut.arg)
  /\ expandTilde(cfgOut.arg) \in madeDirs

(***************************************************************************)
(* Claims about loading, checked under SpecLoad.                           *)
(***************************************************************************)
\* Whether the name starts with a stamp time.Parse accepts.
StartsWithValidStamp(name) == Len(name) >= 15 /\ StampOk(SubSeq(name, 1, 15))

\* C22: the creation time of a loaded note depends only on the file name: it
\* is the stamp when the name starts with a valid stamp, and two files of the
\* same name with different bodies load with the same creation time.
C22_CreatedDependsOnlyOnName ==
  ldOut # <<>> =>
    /\ StartsWithValidStamp(ldName) =>
         FormatStamp(ldOut[1].Created) = SubSeq(ldName, 1, 15)
    /\ ldOut[1].Created = ldOut[2].Created

\* C22 as the code has it: the creation time is the stamp when the name starts
\* with a valid stamp other than that of the zero time, whatever the body is;
\* for every other name it is the time of the load, whatever the body is.
C22_CreatedIsStampOrLoadTime ==
  ldOut # <<>> =>
    IF StartsWithValidStamp(ldName) /\ SubSeq(ldName, 1, 15) # "00010101_000000"
    THEN \A k \in 1..2 : /\ FormatStamp(ldOut[k].Created) = SubSeq(ldName, 1, 15)
                         /\ ~ldOut[k].CreatedSub
    ELSE /\ \A k \in 1..2 : ldOut[k].Created = ldOut[k].Modified /\ ldOut[k].CreatedSub
         /\ ldOut[1].Created <= ldOut[2].Created

\* A stamped file has been loaded with two bodies whose date lines differ.
C22_Witness ==
  /\ ldOut # <<>>
  /\ ldName = "20241201_235959_a.txt"
  /\ ldBodies[1] # ldBodies[2]
  /\ ldOut[1].Created = Clock0 /\ ldOut[2].Created = Clock0
  /\ ldOut[1].Modified # ldOut[2].Modified

(***************************************************************************)
(* Claims about the interactive UI, checked under SpecTuiPaging (C27) and  *)
(* SpecTui (C28, C29).                                                     *)
(***************************************************************************)
\* C27: whenever the note list is not empty the selected index is inside it
\* and on the displayed page: 0 <= selected < len(notes) and
\* startIndex <= selected < startIndex + pageSize.
C27_SelectionOnDisplayedPage ==
  Len(model.notes) > 0 =>
    /\ 0 <= model.selected /\ model.selected < Len(model.notes)
    /\ model.startIndex <= model.selected
    /\ model.selected < model.startIndex + model.pageSize

\* C28: in every confirm_delete state the selected index is inside the note
\* list and the note whose title the prompt shows, notes[selected], is the
\* note that y deletes.
C28_PromptShowsDeleteTarget ==
  model.state = "confirm_delete" =>
    /\ model.selected < Len(model.notes)
    /\ model.notes[model.selected + 1].ID = model.deleteTarget

\* The query of the active search type.
ActiveQuery(mm) ==
  IF mm.searchType = "keyword" THEN mm.keywordQuery
  ELSE IF mm.searchType = "tag" THEN mm.tagQuery
  ELSE mm.dateQuery

\* What the Manager's search of the active type returns for the query.
ActiveSearch(mm, cat) ==
  IF mm.searchType = "keyword" THEN KeywordMatches(cat, mm.keywordQuery)
  ELSE IF mm.searchType = "tag" THEN TagMatches(cat, mm.tagQuery)
  ELSE DateMatches(cat, mm.dateQuery)

\* C29: after Enter in the search view with a non-empty query of the active
\* type, the displayed list is the result of that search (empty when no note
\* matches), with the selection and the page at the top.
C29_SearchResultIsDisplayed ==
  [][(/\ model.state = "search" /\ model'.state = "list"
      /\ ActiveQuery(model) # "" /\ ActiveQuery(model') = ActiveQuery(model)) =>
       /\ model'.notes = ActiveSearch(model, catalog)
       /\ model'.selected = 0
       /\ model'.startIndex = 0]_vars

=============================================================================
